---- MODULE Spec2Model ----
(***************************************************************************)
(* Aggregation-and-caching core of the bonds screener backend:            *)
(*   CouponService  (backend/app/services/coupon_service.py)              *)
(*   CouponLoader   (backend/app/services/coupon_loader.py)               *)
(*   DataLoader     (backend/app/services/data_loader.py)                 *)
(*   RatingService  (backend/app/services/rating_service.py)              *)
(*   EmitentService (backend/app/services/emitent_service.py)             *)
(*   the batch-refresh routes (backend/app/routers/*.py)                  *)
(*                                                                         *)
(* Conventions.  An Optional value is a sequence of length 0 or 1: None is *)
(* <<>> and Some(x) is <<x>>.  A JSON object / Python dict is a function   *)
(* whose DOMAIN is its key set, so d.get(k) is "k \in DOMAIN d".  Dates    *)
(* are day numbers; a date STRING is a record [kind, day] whose kind tells *)
(* whether strptime / fromisoformat accepts it.  Money amounts are whole   *)
(* thousandths of a currency unit.                                         *)
(***************************************************************************)
EXTENDS Integers, Sequences, FiniteSets, TLC

VARIABLES
    today,          \* date.today(), a day number
    bonds_file,     \* data/bonds.json: the static-attributes source
    coupons_file,   \* data/coupons_data.json: the "bonds" object of the file
    coupons_cache,  \* CouponLoader._coupons_cache
    rating_file,    \* data/bonds_rating.json
    rating_cache,   \* RatingService._rating_cache
    emitent_file,   \* data/bonds_emitent.json
    bonds_cache,    \* DataLoader._bonds_cache
    details_cache,  \* DataLoader._details_cache
    refreshed,      \* history: ids force-refreshed (coupons) with success since the last get_bonds
    rated_on,       \* history: id -> day of the last rating fetch this model performed
    last,           \* observation of the last call: its arguments, result and effects
    coupons_valid,  \* data/coupons_data.json parses as JSON
    emitent_cache,  \* EmitentService._emitent_cache
    columns_cache,  \* DataLoader._columns_cache
    descriptions_cache, \* DataLoader._descriptions_cache
    threads         \* the calls in flight: thread -> its position and locals

\* the caches and call positions only the later specifications exercise
ext == <<coupons_valid, emitent_cache, columns_cache, descriptions_cache, threads>>

vars == <<today, bonds_file, coupons_file, coupons_cache, rating_file, rating_cache,
          emitent_file, bonds_cache, details_cache, refreshed, rated_on, last,
          coupons_valid, emitent_cache, columns_cache, descriptions_cache, threads>>

----------------------------------------------------------------------------
(* Bounds of the model *)

\* last day of the calendar when the coupon cache is exercised (TTL 14 days)
MaxDay == 15

\* last day of the calendar when the rating cache is exercised (TTL 30 days)
MaxRatingDay == 31

\* The calendar advances in jumps, so that a value written on day 0 is read
\* again at an age of exactly TTL and of TTL + 1 days.
CouponJumps == {14, 15}

RatingJumps == {30, 31}

SECIDS == {"A", "B"}

\* the threads of the server process: the event loop, which runs the
\* `async def` readers, and the worker asyncio.to_thread hands the refreshes to
THREADS == {"loop", "worker"}

Idle == [pc |-> "idle"]

----------------------------------------------------------------------------
(* Optional values and date strings *)

None == <<>>

Some(x) == <<x>>

Abs(x) == IF x < 0 THEN -x ELSE x

EmptyDate == [kind |-> "empty", day |-> 0]

BadDate == [kind |-> "bad", day |-> 0]

\* date.isoformat()
IsoFormat(d) == [kind |-> "iso", day |-> d]

\* datetime.strptime(s, "%Y-%m-%d").date() / date.fromisoformat(s):
\* None stands for the ValueError / TypeError both raise on a bad string.
ParseIso(s) == IF s.kind = "iso" THEN Some(s.day) ELSE None

\* `if last_updated` : the truth value of a Python string
Truthy(s) == s.kind # "empty"

\* dict restricted to the keys in ks
Restrict(d, ks) == [k \in (DOMAIN d) \cap ks |-> d[k]]

\* d[k] = v on a dict, adding the key when absent
WithKey(d, key, v) == [k \in (DOMAIN d) \cup {key} |-> IF k = key THEN v ELSE d[k]]

\* list.index(x) + 1, or 0 when x is not in the list
IndexOf(seq, x) ==
    IF \E i \in 1..Len(seq) : seq[i] = x
    THEN CHOOSE i \in 1..Len(seq) : seq[i] = x /\ \A j \in 1..i - 1 : seq[j] # x
    ELSE 0

----------------------------------------------------------------------------
(* CouponService *)

STALE_DAYS == 14

\* CouponService._is_data_stale
\* (variant: stale from the 14th day on)
CouponIsStaleGE(last_updated, day) ==
    LET p == ParseIso(last_updated)
    IN  IF p = None THEN TRUE ELSE (day - p[1]) >= STALE_DAYS

CouponIsStale(last_updated, day) ==
    LET p == ParseIso(last_updated)
    IN  IF p = None THEN TRUE ELSE (day - p[1]) > STALE_DAYS

\* Amounts are held in thousandths of the currency unit.
\* round(v, 2): to the nearest hundredth.  An amount exactly between two
\* hundredths goes where its binary representation falls; the amounts of the
\* model are never such ties.
Round2(v) == IF v % 10 < 5 THEN v - (v % 10) ELSE v - (v % 10) + 10

\* threshold = 0.10, in thousandths
Threshold == 100

\* the `payments` list: c["value"] of every coupon whose value is not None
RECURSIVE Payments(_)
Payments(coupons) ==
    IF coupons = <<>> THEN <<>>
    ELSE LET c == Head(coupons)
         IN  (IF "value" \in DOMAIN c THEN <<c.value>> ELSE <<>>) \o Payments(Tail(coupons))

\* line 93, `abs(cur - prev) > threshold` on binary64 values.  A difference
\* other than 0.10 compares as in exact arithmetic.  A difference of 0.10
\* between two amounts in hundredths compares by the doubles nearest to
\* them: 1.1 - 1.0 is 0.10000000000000009 and exceeds the double 0.1, while
\* 5.1 - 5.0 is 0.09999999999999964 and does not.  BinaryAbove lists the
\* pairs (lower, upper) of the model's amounts, 0.10 apart, that exceed it.
BinaryAbove == {<<1000, 1100>>}

ExceedsThreshold(prev, cur) ==
    IF Abs(cur - prev) = Threshold
    THEN (IF prev < cur THEN <<prev, cur>> ELSE <<cur, prev>>) \in BinaryAbove
    ELSE Abs(cur - prev) > Threshold

\* lines 72-74, `len(payments) < 4`: too few payments to tell
\* (variant: four payments are too few as well)
TooFewOrFour(total) == total <= 4

TooFew(total) == total < 4

\* CouponService.detect_coupon_type
detect_coupon_type(coupons) ==
    LET payments == Payments(coupons)
        total == Len(payments)
        rounded == [i \in 1..total |-> Round2(payments[i])]
        unique_values == {rounded[i] : i \in 1..total}
        Count(v) == Cardinality({i \in 1..total : rounded[i] = v})
        most_common_count ==
            CHOOSE c \in {Count(v) : v \in unique_values} :
                \A v \in unique_values : Count(v) <= c
        changes == Cardinality({i \in 1..(total - 1) :
                                   ExceedsThreshold(rounded[i], rounded[i + 1])})
    IN  IF TooFew(total) THEN "FIX"
        ELSE IF Cardinality(unique_values) = 1 THEN "FIX"
        ELSE IF most_common_count * 10 >= 8 * total /\ changes <= 2 THEN "FIX"
        ELSE "FLOAT"

fields_to_remove == {"isin", "name", "issuevalue", "primary_boardid", "coupon_type", "secid"}

\* CouponService._clean_coupon_fields
clean_coupon_fields(coupon) == Restrict(coupon, (DOMAIN coupon) \ fields_to_remove)

CleanAll(coupons) == [i \in 1..Len(coupons) |-> clean_coupon_fields(coupons[i])]

\* get_coupons, lines 231-233: tag every amortization with the label
\* (variant: only the first amortization is tagged)
TagFirstOnly(amortizations, coupon_type) ==
    [i \in 1..Len(amortizations) |->
        IF i = 1 THEN WithKey(amortizations[i], "coupon_type", coupon_type)
        ELSE amortizations[i]]

TagAmortizations(amortizations, coupon_type) ==
    [i \in 1..Len(amortizations) |-> WithKey(amortizations[i], "coupon_type", coupon_type)]

\* get_coupons, lines 192-209: the in-memory migration of an old-layout entry;
\* it changes the returned amortizations only.
MigrateAmortizations(bond_data) ==
    LET coupons == bond_data.coupons
        amortizations == bond_data.amortizations
        has_coupon_type_in_amort ==
            \E i \in 1..Len(amortizations) : "coupon_type" \in DOMAIN amortizations[i]
    IN  IF Len(coupons) > 0 /\ Len(amortizations) > 0
           /\ ~has_coupon_type_in_amort
           /\ "coupon_type" \in DOMAIN coupons[1]
        THEN [i \in 1..Len(amortizations) |->
                 WithKey(amortizations[i], "coupon_type", coupons[1].coupon_type)]
        ELSE amortizations

\* get_coupons, lines 182-214: the value returned on a cache hit
HitValue(bond_data) ==
    [bond_data EXCEPT !.amortizations = MigrateAmortizations(bond_data),
                      !.coupons = CleanAll(bond_data.coupons)]

\* get_coupons, lines 219-225: the value returned when the download fails
\* and an entry is cached
FallbackValue(bond_data) == [bond_data EXCEPT !.coupons = CleanAll(bond_data.coupons)]

\* get_coupons, lines 228-244: the entry a successful download persists
BondEntry(fresh_data, day) ==
    LET coupon_type == detect_coupon_type(fresh_data.coupons)
    IN  [last_updated |-> IsoFormat(day),
         amortizations |-> TagAmortizations(fresh_data.amortizations, coupon_type),
         coupons |-> CleanAll(fresh_data.coupons),
         offers |-> fresh_data.offers]

\* get_coupons, line 182-186: does the call answer from the cache?
IsHit(bonds, secid, force_refresh, day) ==
    /\ secid \in DOMAIN bonds
    /\ ~force_refresh
    /\ Truthy(bonds[secid].last_updated)
    /\ ~CouponIsStale(bonds[secid].last_updated, day)

----------------------------------------------------------------------------
(* CouponLoader *)

\* CouponLoader._load_coupons_data: the loader's cache after the call.  The
\* coupons file always exists here (CouponService creates it) and parses.
LoadCouponsData(cache, file) == IF cache # None THEN cache ELSE Some(file)

\* CouponLoader._parse_date
CouponParseDate(s) == IF ~Truthy(s) \/ s.kind = "zero" THEN None ELSE ParseIso(s)

\* CouponLoader.get_nearest_coupon_value
get_nearest_coupon_value(coupons_data, secid, current_date) ==
    IF secid \notin DOMAIN coupons_data THEN None
    ELSE LET coupons == coupons_data[secid].coupons
             Dated == {i \in 1..Len(coupons) :
                          /\ "coupondate" \in DOMAIN coupons[i]
                          /\ CouponParseDate(coupons[i].coupondate) # None}
             Delta(i) == Abs(CouponParseDate(coupons[i].coupondate)[1] - current_date)
         IN  IF Dated = {} THEN None
             ELSE LET n == CHOOSE i \in Dated :
                               \A j \in Dated :
                                   Delta(i) < Delta(j) \/ (Delta(i) = Delta(j) /\ i <= j)
                  IN  IF "value" \in DOMAIN coupons[n] THEN Some(coupons[n].value) ELSE None

\* CouponLoader.get_coupon_type
\* (variant: the label is computed from the coupons held)
GetCouponTypeRecomputed(coupons_data, secid) ==
    IF secid \notin DOMAIN coupons_data THEN None
    ELSE Some(detect_coupon_type(coupons_data[secid].coupons))

\* (variant: without amortizations the label is computed from the coupons)
GetCouponTypeOrRecompute(coupons_data, secid) ==
    IF secid \notin DOMAIN coupons_data THEN None
    ELSE LET amortizations == coupons_data[secid].amortizations
         IN  IF Len(amortizations) = 0
             THEN Some(detect_coupon_type(coupons_data[secid].coupons))
             ELSE IF "coupon_type" \in DOMAIN amortizations[1]
                     /\ amortizations[1].coupon_type \in {"FIX", "FLOAT"}
                  THEN Some(amortizations[1].coupon_type)
                  ELSE None

get_coupon_type(coupons_data, secid) ==
    IF secid \notin DOMAIN coupons_data THEN None
    ELSE LET amortizations == coupons_data[secid].amortizations
         IN  IF Len(amortizations) = 0 THEN None
             ELSE IF "coupon_type" \in DOMAIN amortizations[1]
                     /\ amortizations[1].coupon_type \in {"FIX", "FLOAT"}
                  THEN Some(amortizations[1].coupon_type)
                  ELSE None

----------------------------------------------------------------------------
(* DataLoader *)

\* models/bond.py: the fields BondListItem declares.  The model has no
\* Config.extra, so assigning any other attribute raises ValueError.
BondListItemFields ==
    {"SECID", "BOARDID", "SHORTNAME", "COUPONPERCENT", "MATDATE", "STATUS",
     "TRADINGSTATUS", "FACEVALUE", "PREVPRICE", "YIELDATPREVWAPRICE", "NEXTCOUPON",
     "BOARDNAME", "CALLOPTIONDATE", "PUTOPTIONDATE", "ACCRUEDINT", "COUPONPERIOD",
     "COUPONVALUE", "DURATION", "DURATIONWAPRICE", "CURRENCYID", "FACEUNIT",
     "LISTLEVEL", "RATING_AGENCY", "RATING_LEVEL"}

\* BondListItem.__setattr__: [ok, item]; ok = FALSE is the ValueError
SetAttr(item, name, v) ==
    IF name \in BondListItemFields
    THEN [ok |-> TRUE, item |-> [item EXCEPT ![name] = v]]
    ELSE [ok |-> FALSE, item |-> item]

\* BondListItem(**list_item_data), lines 140-163, with the fields the joins
\* touch; ok = FALSE is the ValidationError of a missing required field.
NewListItem(row) ==
    IF {"SECID", "BOARDID", "SHORTNAME"} \subseteq DOMAIN row
    THEN [ok |-> TRUE,
          item |-> [SECID |-> row.SECID, BOARDID |-> row.BOARDID,
                    TRADINGSTATUS |-> None, COUPONVALUE |-> None,
                    DURATION |-> None, DURATIONWAPRICE |-> None,
                    RATING_AGENCY |-> None, RATING_LEVEL |-> None]]
    ELSE [ok |-> FALSE, item |-> <<>>]

\* _load_bonds_data, lines 138-184: one securities row -> [ok, item];
\* ok = FALSE is the `except Exception: continue` that drops the row.
BuildListItem(row, coupons_data, day) ==
    LET new == NewListItem(row)
    IN  IF ~new.ok THEN new
        ELSE LET nearest_coupon_value == get_nearest_coupon_value(coupons_data, row.SECID, day)
                 a == IF nearest_coupon_value # None
                      THEN SetAttr(new.item, "COUPONVALUE", nearest_coupon_value)
                      ELSE new
                 coupon_type == get_coupon_type(coupons_data, row.SECID)
             IN  IF ~a.ok THEN a
                 ELSE IF coupon_type # None
                      THEN SetAttr(a.item, "COUPON_TYPE", coupon_type)
                      ELSE a

\* _load_bonds_data, lines 175-178: the coupon type read for each row that
\* gets as far as the read
LabelsRead(rows, coupons_data) ==
    LET Read == {i \in 1..Len(rows) : NewListItem(rows[i]).ok}
    IN  [s \in {rows[i].SECID : i \in Read} |-> get_coupon_type(coupons_data, s)]

\* (variant: the detail record is stored before the list record is built,
\* so a rejected row leaves one)
RECURSIVE SecuritiesLoopDetailsFirst(_, _, _, _)
SecuritiesLoopDetailsFirst(rows, st, coupons_data, day) ==
    IF rows = <<>> THEN st
    ELSE LET row == Head(rows)
             r == BuildListItem(row, coupons_data, day)
             next == [bonds |-> IF r.ok THEN Append(st.bonds, r.item) ELSE st.bonds,
                      details |-> IF "SECID" \notin DOMAIN row \/ row.SECID = ""
                                  THEN st.details
                                  ELSE WithKey(st.details, row.SECID,
                                               [securities |-> row,
                                                marketdata |-> None,
                                                marketdata_yields |-> <<>>])]
         IN  SecuritiesLoopDetailsFirst(Tail(rows), next, coupons_data, day)

\* _load_bonds_data, lines 127-193: the securities loop.  st = [bonds, details]
RECURSIVE SecuritiesLoop(_, _, _, _)
SecuritiesLoop(rows, st, coupons_data, day) ==
    IF rows = <<>> THEN st
    ELSE LET row == Head(rows)
             r == BuildListItem(row, coupons_data, day)
             next == IF ~r.ok THEN st
                     ELSE [bonds |-> Append(st.bonds, r.item),
                           details |-> IF row.SECID = "" THEN st.details
                                       ELSE WithKey(st.details, row.SECID,
                                                    [securities |-> row,
                                                     marketdata |-> None,
                                                     marketdata_yields |-> <<>>])]
         IN  SecuritiesLoop(Tail(rows), next, coupons_data, day)

\* smallest element of a non-empty set of indices: the first match of a scan
First(S) == CHOOSE i \in S : \A j \in S : i <= j

\* A JSON value of the DURATION column: null is <<>>, the number n is <<n>>,
\* the string s is <<"str", s>>.
\* lines 241-249: float(duration_str) on the strings the model uses, after
\* strip(); None for the empty string, the spelled-out nulls and what
\* float() rejects
ParseFloatStr(duration_str) ==
    IF duration_str = "150" THEN Some(150)
    ELSE IF duration_str = " 7 " THEN Some(7)
    ELSE None

\* lines 232-254: the value matched_bond.DURATION gets from duration_raw
ParseDuration(duration_raw) ==
    IF Len(duration_raw) = 0 THEN None
    ELSE IF Len(duration_raw) = 1 THEN duration_raw
    ELSE ParseFloatStr(duration_raw[2])

\* (variant: the board code is ignored, the first record with the security
\* code is the one updated)
ApplyMarketRowBySecid(st, md) ==
    IF ~("SECID" \in DOMAIN md /\ md.SECID # "" /\ md.SECID \in DOMAIN st.details) THEN st
    ELSE LET bonds == st.bonds
             bysec == {i \in 1..Len(bonds) : bonds[i].SECID = md.SECID}
             matched == IF bysec # {} THEN First(bysec) ELSE 0
             b0 == bonds[matched]
             b1 == IF "TRADINGSTATUS" \in DOMAIN md /\ md.TRADINGSTATUS # ""
                   THEN [b0 EXCEPT !.TRADINGSTATUS = Some(md.TRADINGSTATUS)] ELSE b0
             b2 == IF "DURATION" \in DOMAIN md
                   THEN [b1 EXCEPT !.DURATION = ParseDuration(md.DURATION)] ELSE b1
         IN  [bonds |-> IF matched = 0 THEN bonds ELSE [bonds EXCEPT ![matched] = b2],
              details |-> [st.details EXCEPT ![md.SECID].marketdata = Some(md)]]

\* _load_bonds_data, lines 196-255: one market-data row.  A column the
\* row lacks, or holds null in, is a field the record md lacks.
ApplyMarketRow(st, md) ==
    IF ~("SECID" \in DOMAIN md /\ md.SECID # "" /\ md.SECID \in DOMAIN st.details) THEN st
    ELSE LET bonds == st.bonds
             exact == {i \in 1..Len(bonds) :
                          /\ "BOARDID" \in DOMAIN md /\ md.BOARDID # ""
                          /\ bonds[i].SECID = md.SECID
                          /\ bonds[i].BOARDID = md.BOARDID}
             bysec == {i \in 1..Len(bonds) : bonds[i].SECID = md.SECID}
             matched == IF exact # {} THEN First(exact)
                        ELSE IF bysec # {} THEN First(bysec) ELSE 0
             b0 == bonds[matched]
             b1 == IF "TRADINGSTATUS" \in DOMAIN md /\ md.TRADINGSTATUS # ""
                   THEN [b0 EXCEPT !.TRADINGSTATUS = Some(md.TRADINGSTATUS)] ELSE b0
             b2 == IF "DURATION" \in DOMAIN md
                   THEN [b1 EXCEPT !.DURATION = ParseDuration(md.DURATION)] ELSE b1
         IN  [bonds |-> IF matched = 0 THEN bonds ELSE [bonds EXCEPT ![matched] = b2],
              details |-> [st.details EXCEPT ![md.SECID].marketdata = Some(md)]]

\* (variant: every yield-curve row with a value overwrites the field)
ApplyYieldRowOverwriting(st, y) ==
    IF ~("SECID" \in DOMAIN y /\ y.SECID \in DOMAIN st.details) THEN st
    ELSE LET bonds == st.bonds
             bysec == {i \in 1..Len(bonds) : bonds[i].SECID = y.SECID}
             hit == IF "DURATIONWAPRICE" \in DOMAIN y /\ bysec # {}
                    THEN First(bysec) ELSE 0
         IN  [bonds |-> IF hit = 0 THEN bonds
                        ELSE [bonds EXCEPT ![hit].DURATIONWAPRICE = Some(y.DURATIONWAPRICE)],
              details |-> [st.details EXCEPT
                              ![y.SECID].marketdata_yields = Append(@, y)]]

\* _load_bonds_data, lines 258-272: one yield-curve row
ApplyYieldRow(st, y) ==
    IF ~("SECID" \in DOMAIN y /\ y.SECID \in DOMAIN st.details) THEN st
    ELSE LET bonds == st.bonds
             bysec == {i \in 1..Len(bonds) : bonds[i].SECID = y.SECID}
             hit == IF "DURATIONWAPRICE" \in DOMAIN y /\ bysec # {}
                       /\ bonds[First(bysec)].DURATIONWAPRICE = None
                    THEN First(bysec) ELSE 0
         IN  [bonds |-> IF hit = 0 THEN bonds
                        ELSE [bonds EXCEPT ![hit].DURATIONWAPRICE = Some(y.DURATIONWAPRICE)],
              details |-> [st.details EXCEPT
                              ![y.SECID].marketdata_yields = Append(@, y)]]

RECURSIVE MarketLoop(_, _)
MarketLoop(rows, st) ==
    IF rows = <<>> THEN st ELSE MarketLoop(Tail(rows), ApplyMarketRow(st, Head(rows)))

RECURSIVE YieldsLoop(_, _)
YieldsLoop(rows, st) ==
    IF rows = <<>> THEN st ELSE YieldsLoop(Tail(rows), ApplyYieldRow(st, Head(rows)))

\* str.strip() on the strings rating and issuer files hold here
Strip(s) == IF s = " " THEN "" ELSE IF s = "AKRA " THEN "AKRA" ELSE s

\* the list of rating observations an entry of bonds_rating.json holds, in
\* any of its three layouts; <<>> when the entry holds no list
EntryRatings(entry) == IF entry.fmt \in {"new", "cci", "array"} /\ entry.is_list
                       THEN entry.ratings ELSE <<>>

\* DataLoader._load_ratings_map: secid -> [agency, level]
\* (variant: the first observation is taken whatever its agency name)
LoadRatingsMapUnchecked(file) ==
    IF file.state # "ok" THEN <<>>
    ELSE LET Rated == {s \in DOMAIN file.data :
                          LET rs == EntryRatings(file.data[s])
                          IN  /\ Len(rs) > 0
                              /\ "agency_name_short_ru" \in DOMAIN rs[1]}
         IN  [s \in Rated |->
                 LET first_rating == EntryRatings(file.data[s])[1]
                 IN  [agency |-> Some(Strip(first_rating.agency_name_short_ru)),
                      level |-> IF "rating_level_name_short_ru" \in DOMAIN first_rating
                                   /\ first_rating.rating_level_name_short_ru # ""
                                THEN Some(Strip(first_rating.rating_level_name_short_ru))
                                ELSE None]]

load_ratings_map(file) ==
    IF file.state # "ok" THEN <<>>
    ELSE LET Rated == {s \in DOMAIN file.data :
                          LET rs == EntryRatings(file.data[s])
                          IN  /\ Len(rs) > 0
                              /\ "agency_name_short_ru" \in DOMAIN rs[1]
                              /\ rs[1].agency_name_short_ru # ""
                              /\ Strip(rs[1].agency_name_short_ru) # ""}
         IN  [s \in Rated |->
                 LET first_rating == EntryRatings(file.data[s])[1]
                 IN  [agency |-> Some(Strip(first_rating.agency_name_short_ru)),
                      level |-> IF "rating_level_name_short_ru" \in DOMAIN first_rating
                                   /\ first_rating.rating_level_name_short_ru # ""
                                THEN Some(Strip(first_rating.rating_level_name_short_ru))
                                ELSE None]]

\* DataLoader._add_ratings_to_bonds
add_ratings_to_bonds(bonds, ratings_map) ==
    [i \in 1..Len(bonds) |->
        IF bonds[i].SECID \in DOMAIN ratings_map
        THEN [bonds[i] EXCEPT !.RATING_AGENCY = ratings_map[bonds[i].SECID].agency,
                              !.RATING_LEVEL = ratings_map[bonds[i].SECID].level]
        ELSE bonds[i]]

\* DataLoader._load_bondtype_map: secid -> type
load_bondtype_map(file) ==
    IF file.state # "ok" THEN <<>>
    ELSE LET Typed == {s \in DOMAIN file.data :
                          "type" \in DOMAIN file.data[s] /\ file.data[s].type # ""}
         IN  [s \in Typed |-> Strip(file.data[s].type)]

\* DataLoader._add_bondtypes_to_bonds: every bond whose SECID has a type gets
\* bond.BONDTYPE assigned; [ok, bonds], ok = FALSE is the ValueError of the
\* first such assignment, which nothing catches.
add_bondtypes_to_bonds(bonds, bondtype_map) ==
    IF \E i \in 1..Len(bonds) : bonds[i].SECID \in DOMAIN bondtype_map
    THEN SetAttr(bonds, "BONDTYPE", None)
    ELSE [ok |-> TRUE, item |-> bonds]

\* DataLoader._load_bonds_data: [ok, bonds, details, coupons_cache].
\* ok = FALSE: the call raised and assigned neither cache.
load_bonds_data(file, ccache, cfile, rfile, efile, day) ==
    LET loaded == \E i \in 1..Len(file.securities) : NewListItem(file.securities[i]).ok
        ccache2 == IF loaded THEN LoadCouponsData(ccache, cfile) ELSE ccache
        coupons_data == IF loaded THEN ccache2[1] ELSE <<>>
        st1 == SecuritiesLoop(file.securities, [bonds |-> <<>>, details |-> <<>>],
                              coupons_data, day)
        st2 == MarketLoop(file.marketdata, st1)
        st3 == YieldsLoop(file.marketdata_yields, st2)
        ratings_map == load_ratings_map(rfile)
        rated == add_ratings_to_bonds(st3.bonds, ratings_map)
        bondtype_map == load_bondtype_map(efile)
        typed == add_bondtypes_to_bonds(rated, bondtype_map)
        details == [s \in DOMAIN st3.details |->
                       IF s \in DOMAIN ratings_map
                       THEN [st3.details[s] EXCEPT
                                !.securities = WithKey(WithKey(@, "RATING_AGENCY", ratings_map[s].agency),
                                                       "RATING_LEVEL", ratings_map[s].level)]
                       ELSE st3.details[s]]
    IN  [ok |-> typed.ok, bonds |-> rated, details |-> details, coupons_cache |-> ccache2,
         labels |-> LabelsRead(file.securities, coupons_data)]

----------------------------------------------------------------------------
(* DataLoader: the metadata caches and the replacement of the static source *)

\* DataLoader._load_column_mapping, lines 305-325: field name -> display
\* name over the three sections of columns.json, a later section
\* overriding an earlier one; a section without the two columns is skipped
\* and so is a row that is too short or holds an empty name or title
SectionMapping(section) ==
    LET name_idx == IndexOf(section.columns, "name")
        short_title_idx == IndexOf(section.columns, "short_title")
        Rows == {i \in 1..Len(section.data) :
                    /\ Len(section.data[i]) >= name_idx
                    /\ Len(section.data[i]) >= short_title_idx
                    /\ section.data[i][name_idx] # ""
                    /\ section.data[i][short_title_idx] # ""}
        Names == {section.data[i][name_idx] : i \in Rows}
    IN  IF name_idx = 0 \/ short_title_idx = 0 THEN <<>>
        ELSE [n \in Names |->
                 section.data[CHOOSE i \in Rows :
                                 /\ section.data[i][name_idx] = n
                                 /\ \A j \in Rows : section.data[j][name_idx] = n => j <= i
                             ][short_title_idx]]

\* d1.update(d2)
Update(d1, d2) ==
    [k \in DOMAIN d1 \cup DOMAIN d2 |-> IF k \in DOMAIN d2 THEN d2[k] ELSE d1[k]]

load_column_mapping(file) ==
    Update(Update(SectionMapping(file.securities), SectionMapping(file.marketdata)),
           SectionMapping(file.marketdata_yields))

\* DataLoader.clear_metadata_cache, lines 339-342: the value both caches get
\* (variant: the caches are left as they are)
KeepMetadataCache(cache) == cache

clear_metadata_cache(cache) == None

\* refresh_bonds_dataset, lines 91-99: the row counts of the payload
RowCounts(payload) ==
    [securities |-> Len(payload.securities), marketdata |-> Len(payload.marketdata),
     marketdata_yields |-> Len(payload.marketdata_yields)]

----------------------------------------------------------------------------
(* bond_filter: filter_bonds *)

\* A str the filter inspects character by character is a sequence of
\* one-character strings.

\* bond_filter.py:8-18, from highest to lowest
RATINGS ==
    << <<"A", "A", "A">>,
       <<"A", "A", "+">>,
       <<"A", "A">>,
       <<"A", "A", "-">>,
       <<"A", "+">>,
       <<"A">>,
       <<"A", "-">>,
       <<"B", "B", "B", "+">>,
       <<"B", "B", "B">>,
       <<"B", "B", "B", "-">>,
       <<"B", "B", "+">>,
       <<"B", "B">>,
       <<"B", "B", "-">>,
       <<"B", "+">>,
       <<"B">>,
       <<"B", "-">>,
       <<"C", "C", "C", "+">>,
       <<"C", "C", "C">>,
       <<"C", "C", "C", "-">>,
       <<"C", "C">>,
       <<"C">>,
       <<"D">> >>

UpperLetters ==
    {"A", "B", "C", "D", "E", "F", "G", "H", "I", "J", "K", "L", "M",
     "N", "O", "P", "Q", "R", "S", "T", "U", "V", "W", "X", "Y", "Z"}

\* str.upper() on the characters rating strings hold here
UpperChar(c) ==
    IF c = "r" THEN "R" ELSE IF c = "u" THEN "U" ELSE IF c = "a" THEN "A" ELSE c

Upper(str) == [i \in 1..Len(str) |-> UpperChar(str[i])]

\* re.search(rf'(?:^|[^A-Z])({re.escape(rating_value)})(?:[^A-Z+\-]|$)', str)
ReSearch(rating_value, str) ==
    \E p \in 1..(Len(str) - Len(rating_value) + 1) :
        /\ SubSeq(str, p, p + Len(rating_value) - 1) = rating_value
        /\ (p = 1 \/ str[p - 1] \notin UpperLetters)
        /\ \/ p + Len(rating_value) > Len(str)
           \/ str[p + Len(rating_value)] \notin UpperLetters \cup {"+", "-"}

\* filter_bonds.is_rating_in_range, lines 139-158
\* (variant: the two bounds are taken in either order)
IsRatingInRangeEitherOrder(RATING_LEVEL, min_rating_index, max_rating_index) ==
    /\ RATING_LEVEL # None
    /\ RATING_LEVEL[1] # <<>>
    /\ \E rating_index \in 1..Len(RATINGS) :
          /\ \/ rating_index \in min_rating_index..max_rating_index
             \/ rating_index \in max_rating_index..min_rating_index
          /\ ReSearch(RATINGS[rating_index], Upper(RATING_LEVEL[1]))

is_rating_in_range(RATING_LEVEL, min_rating_index, max_rating_index) ==
    /\ RATING_LEVEL # None
    /\ RATING_LEVEL[1] # <<>>
    /\ \E rating_index \in min_rating_index..max_rating_index :
          ReSearch(RATINGS[rating_index], Upper(RATING_LEVEL[1]))

\* lines 69-86, calc_coupon_yield(bond) >= bound or <= bound, the quotient
\* (COUPONVALUE * 10000 / (PREVPRICE * FACEVALUE)) * (365 / COUPONPERIOD)
\* compared by cross-multiplication; FALSE when it is None
CouponYieldDefined(b) ==
    /\ b.COUPONVALUE # None /\ b.PREVPRICE # None /\ b.FACEVALUE # None
    /\ b.COUPONPERIOD # None
    /\ b.PREVPRICE[1] > 0 /\ b.FACEVALUE[1] > 0 /\ b.COUPONPERIOD[1] > 0

CouponYieldAtLeast(b, bound) ==
    /\ CouponYieldDefined(b)
    /\ b.COUPONVALUE[1] * 10000 * 365
          >= bound * b.PREVPRICE[1] * b.FACEVALUE[1] * b.COUPONPERIOD[1]

CouponYieldAtMost(b, bound) ==
    /\ CouponYieldDefined(b)
    /\ b.COUPONVALUE[1] * 10000 * 365
          <= bound * b.PREVPRICE[1] * b.FACEVALUE[1] * b.COUPONPERIOD[1]

\* `b.X and b.X >= bound`: an Optional[float] that is None or 0 is falsy
TruthyAtLeast(x, bound) == x # None /\ x[1] # 0 /\ x[1] >= bound

TruthyAtMost(x, bound) == x # None /\ x[1] # 0 /\ x[1] <= bound

\* `RATINGS.index(label.upper())`: 0 stands for the ValueError
RatingIndex(label) == IndexOf(RATINGS, Upper(label))

Elements(list) == {list[i] : i \in 1..Len(list)}

\* filter_bonds, lines 45-167 -> [outcome, bonds].  A criterion that is a
\* list is <<>> when it is None or empty.  BondListItem declares neither
\* BONDTYPE nor COUPON_TYPE (models/bond.py:7-35): reading either from a
\* record raises AttributeError, which is outcome "error".
filter_bonds(bonds, filters) ==
    LET CouponMin(b) == TruthyAtLeast(b.COUPONPERCENT, filters.coupon_min[1])
        CouponMax(b) == TruthyAtMost(b.COUPONPERCENT, filters.coupon_max[1])
        YieldMin(b) == TruthyAtLeast(b.YIELDATPREVWAPRICE, filters.yield_min[1])
        YieldMax(b) == TruthyAtMost(b.YIELDATPREVWAPRICE, filters.yield_max[1])
        CyMin(b) == CouponYieldAtLeast(b, filters.coupon_yield_min[1])
        CyMax(b) == CouponYieldAtMost(b, filters.coupon_yield_max[1])
        MatFrom(b) == b.MATDATE # None /\ b.MATDATE[1] >= filters.matdate_from[1]
        MatTo(b) == b.MATDATE # None /\ b.MATDATE[1] <= filters.matdate_to[1]
        Level(b) == b.LISTLEVEL # None /\ b.LISTLEVEL[1] \in Elements(filters.listlevel)
        Unit(b) == b.FACEUNIT # None /\ b.FACEUNIT[1] \in Elements(filters.faceunit)
        f1 == IF filters.coupon_min # None THEN SelectSeq(bonds, CouponMin) ELSE bonds
        f2 == IF filters.coupon_max # None THEN SelectSeq(f1, CouponMax) ELSE f1
        f3 == IF filters.yield_min # None THEN SelectSeq(f2, YieldMin) ELSE f2
        f4 == IF filters.yield_max # None THEN SelectSeq(f3, YieldMax) ELSE f3
        f5 == IF filters.coupon_yield_min # None THEN SelectSeq(f4, CyMin) ELSE f4
        f6 == IF filters.coupon_yield_max # None THEN SelectSeq(f5, CyMax) ELSE f5
        f7 == IF filters.matdate_from # None THEN SelectSeq(f6, MatFrom) ELSE f6
        f8 == IF filters.matdate_to # None THEN SelectSeq(f7, MatTo) ELSE f7
        f9 == IF filters.listlevel # <<>> THEN SelectSeq(f8, Level) ELSE f8
        f10 == IF filters.faceunit # <<>> THEN SelectSeq(f9, Unit) ELSE f9
        attribute_error == /\ filters.bondtype # <<>> \/ filters.coupon_type # <<>>
                           /\ f10 # <<>>
        ranged == filters.rating_min # None \/ filters.rating_max # None
        min_rating_index == IF filters.rating_min = None THEN 1
                            ELSE RatingIndex(filters.rating_min[1])
        max_rating_index == IF filters.rating_max = None THEN Len(RATINGS)
                            ELSE RatingIndex(filters.rating_max[1])
        value_error == ranged /\ (min_rating_index = 0 \/ max_rating_index = 0)
        InRange(b) == is_rating_in_range(b.RATING_LEVEL, min_rating_index, max_rating_index)
    IN  IF attribute_error \/ value_error THEN [outcome |-> "error", bonds |-> <<>>]
        ELSE [outcome |-> "ok",
              bonds |-> IF ranged THEN SelectSeq(f10, InRange) ELSE f10]

----------------------------------------------------------------------------
(* RatingService *)

RATING_STALE_DAYS == 30

\* RatingService._is_data_stale
\* (variant: stale from the 30th day on)
RatingIsStaleGE(last_updated, day) ==
    LET p == ParseIso(last_updated)
    IN  IF p = None THEN TRUE ELSE (day - p[1]) >= RATING_STALE_DAYS

\* (variant: a date that cannot be parsed counts as fresh)
RatingIsStaleLenient(last_updated, day) ==
    LET p == ParseIso(last_updated)
    IN  IF p = None THEN FALSE ELSE (day - p[1]) > RATING_STALE_DAYS

RatingIsStale(last_updated, day) ==
    LET p == ParseIso(last_updated)
    IN  IF p = None THEN TRUE ELSE (day - p[1]) > RATING_STALE_DAYS

required_keys == {"agency_id", "agency_name_short_ru", "rating_level_id", "rating_date",
                  "rating_level_name_short_ru"}

\* RatingService._filter_rating_keys
filter_rating_keys(rating_item) == Restrict(rating_item, required_keys)

\* RatingService._create_empty_rating
\* (variant: an empty list)
CreateNoRating == <<>>

create_empty_rating ==
    <<[agency_id |-> 0, agency_name_short_ru |-> "", rating_level_id |-> 0,
       rating_date |-> "", rating_level_name_short_ru |-> ""]>>

\* RatingService._load_rating_data: [data, file], the dict the call returns
\* (and keeps as _rating_cache) and the file afterwards.  A missing or
\* unreadable file is replaced by an empty one.
load_rating_data(cache, file) ==
    IF cache # None THEN [data |-> cache[1], file |-> file]
    ELSE IF file.state = "ok" THEN [data |-> file.data, file |-> file]
    ELSE [data |-> <<>>, file |-> [state |-> "ok", data |-> <<>>]]

\* RatingService._extract_emitent_id_from_html.  A page is the sequence of
\* its links [target, id]; the patterns match a link to emidocs.aspx (in any
\* letter case) whose id is a run of digits, and the first match wins.
LowerCase(s) == IF s = "EMIDOCS.ASPX" THEN "emidocs.aspx" ELSE s

\* (variant: the id of the first link, whatever it points to)
ExtractAnyLinkId(html) ==
    IF Len(html) > 0 /\ html[1].id # None THEN html[1].id ELSE None

extract_emitent_id_from_html(html) ==
    LET Hits == {i \in 1..Len(html) :
                    LowerCase(html[i].target) = "emidocs.aspx" /\ html[i].id # None}
    IN  IF Hits = {} THEN None ELSE html[CHOOSE i \in Hits : \A j \in Hits : i <= j].id

\* dict(zip(columns, row))
ZipRow(columns, row) ==
    [k \in {columns[i] : i \in 1..Len(columns)} |->
        row[CHOOSE i \in 1..Len(columns) : columns[i] = k /\ \A j \in i + 1..Len(columns) : columns[j] # k]]

\* lines 252-269 and 277-291: the value under "cci_rating_securities", a
\* columns/data table or a plain list, as a list of dicts
RECURSIVE TableRows(_, _)
TableRows(columns, rows) ==
    IF rows = <<>> THEN <<>>
    ELSE (IF Len(Head(rows)) = Len(columns) THEN <<ZipRow(columns, Head(rows))>> ELSE <<>>)
         \o TableRows(columns, Tail(rows))

RatingsOf(ratings_data) ==
    IF ratings_data.shape = "table" THEN TableRows(ratings_data.columns, ratings_data.data)
    ELSE IF ratings_data.shape = "list" THEN ratings_data.items
    ELSE <<>>

RECURSIVE SelectDicts(_, _)
SelectDicts(items, key) ==
    IF items = <<>> THEN <<>>
    ELSE (IF key \in DOMAIN Head(items) THEN <<Head(items)>> ELSE <<>>)
         \o SelectDicts(Tail(items), key)

\* lines 216-291: the ratings list found in the parsed JSON, <<>> when none.
\* A JSON value is [shape |-> "list", items], [shape |-> "dict", body],
\* [shape |-> "table", columns, data] (a dict with a "data" key) or a scalar.
ExtractRatingsList(json) ==
    IF json.shape = "list"
    THEN LET Holders == {i \in 1..Len(json.items) :
                            /\ "cci_rating_securities" \in DOMAIN json.items[i]
                            /\ json.items[i].cci_rating_securities.shape = "list"}
             nested == IF Holders = {} THEN <<>>
                       ELSE json.items[CHOOSE i \in Holders : \A j \in Holders : i <= j]
                                .cci_rating_securities.items
         IN  IF nested # <<>> THEN nested ELSE SelectDicts(json.items, "agency_id")
    ELSE IF json.shape = "dict"
    THEN LET direct == IF "cci_rating_securities" \in DOMAIN json.body
                       THEN RatingsOf(json.body.cci_rating_securities) ELSE <<>>
             Nests == {k \in DOMAIN json.body :
                          /\ json.body[k].shape = "dict"
                          /\ "cci_rating_securities" \in DOMAIN json.body[k].body
                          /\ json.body[k].body.cci_rating_securities.shape \in {"table", "list"}}
         IN  IF direct # <<>> THEN direct
             ELSE IF Nests = {} THEN <<>>
             ELSE RatingsOf(json.body[CHOOSE k \in Nests : TRUE].body.cci_rating_securities)
    ELSE <<>>

\* lines 294-320: keep the whitelisted keys, drop what filters to nothing
RECURSIVE FilterRatings(_)
FilterRatings(ratings_list) ==
    IF ratings_list = <<>> THEN <<>>
    ELSE LET filtered == filter_rating_keys(Head(ratings_list))
         IN  (IF DOMAIN filtered # {} THEN <<filtered>> ELSE <<>>)
             \o FilterRatings(Tail(ratings_list))

\* RatingService._fetch_rating_via_api on the origin's answer `api`:
\* [raised, value]; value = None is the `return None` of line 332.
fetch_rating_via_api(api) ==
    IF api.status # "ok" THEN [raised |-> TRUE, value |-> None]
    ELSE LET ratings_list == ExtractRatingsList(api.json)
             filtered_ratings == FilterRatings(ratings_list)
         IN  IF ratings_list = <<>> THEN [raised |-> FALSE, value |-> None]
             ELSE IF filtered_ratings = <<>>
                  THEN [raised |-> FALSE, value |-> Some(create_empty_rating)]
                  ELSE [raised |-> FALSE, value |-> Some(filtered_ratings)]

\* RatingService._fetch_rating_from_moex on the origin's answers:
\* [raised, ratings, net, api] with net / api the HTML / API requests sent
fetch_rating_from_moex(html, api) ==
    IF html.status # "ok"
    THEN [raised |-> TRUE, ratings |-> <<>>, net |-> 1, api |-> 0]
    ELSE LET emitent_id == extract_emitent_id_from_html(html.links)
             rating_data == fetch_rating_via_api(api)
         IN  IF emitent_id = None
             THEN [raised |-> FALSE, ratings |-> create_empty_rating, net |-> 1, api |-> 0]
             ELSE IF rating_data.raised
             THEN [raised |-> TRUE, ratings |-> <<>>, net |-> 1, api |-> 1]
             ELSE IF rating_data.value = None
             THEN [raised |-> FALSE, ratings |-> create_empty_rating, net |-> 1, api |-> 1]
             ELSE [raised |-> FALSE, ratings |-> rating_data.value[1], net |-> 1, api |-> 1]

\* get_rating, lines 494-507: the fetch inside its try / except Exception;
\* [raised, ratings]: what get_rating goes on with
\* (variant: without the except clause)
FetchPropagating(html, api) ==
    LET f == fetch_rating_from_moex(html, api)
    IN  [raised |-> f.raised, ratings |-> f.ratings, net |-> f.net, api |-> f.api]

FetchGuarded(html, api) ==
    LET f == fetch_rating_from_moex(html, api)
    IN  [raised |-> FALSE,
         ratings |-> IF f.raised THEN create_empty_rating ELSE f.ratings,
         net |-> f.net, api |-> f.api]

\* get_rating, lines 514-519: the entry saved after a fetch
\* (variant: saved without a date)
NewRatingEntryUndated(fresh_data, day) ==
    [fmt |-> "new", last_updated |-> EmptyDate, is_list |-> TRUE, ratings |-> fresh_data]

NewRatingEntry(fresh_data, day) ==
    [fmt |-> "new", last_updated |-> IsoFormat(day), is_list |-> TRUE, ratings |-> fresh_data]

\* get_rating, lines 426-489: does the call go to the origin?
RatingIsFresh(entry, day) ==
    /\ entry.fmt = "new"
    /\ Truthy(entry.last_updated)
    /\ ~RatingIsStale(entry.last_updated, day)

RatingNeedsFetch(data, secid, force_refresh, day) ==
    /\ force_refresh
    /\ secid \in DOMAIN data => ~RatingIsFresh(data[secid], day)

\* get_rating, lines 426-489: the value returned without a fetch
CachedRatings(data, secid) ==
    IF secid \in DOMAIN data /\ data[secid].fmt \in {"new", "cci", "array"}
    THEN (IF data[secid].is_list THEN data[secid].ratings ELSE <<>>)
    ELSE create_empty_rating

----------------------------------------------------------------------------
(* EmitentService (lines refer to emitent_service.py) *)

\* EmitentService._load_emitent_data: [data, file], the dict the call
\* returns (and keeps as _emitent_cache) and the file afterwards.  A missing
\* or unreadable file is replaced by an empty one.
load_emitent_data(cache, file) ==
    IF cache # None THEN [data |-> cache[1], file |-> file]
    ELSE IF file.state = "ok" THEN [data |-> file.data, file |-> file]
    ELSE [data |-> <<>>, file |-> [state |-> "ok", data |-> <<>>]]

\* lines 130-135: the matching row as a dict of the columns it reaches
RowDict(columns, row) ==
    [k \in {columns[i] : i \in 1..Len(columns) \cap 1..Len(row)} |->
        row[CHOOSE i \in 1..Len(columns) \cap 1..Len(row) :
               columns[i] = k /\ \A j \in i + 1..Len(row) : j \in 1..Len(columns) => columns[j] # k]]

\* EmitentService.fetch_emitent_from_moex, lines 94-153, on the origin's
\* answer: [found, secid, info]; found = FALSE is `return None`, and only a
\* found record is stored, under the SECID the origin names
fetch_emitent_from_moex(isin, answer) ==
    LET miss == [found |-> FALSE, secid |-> "", info |-> <<>>]
        isin_idx == IndexOf(answer.columns, "isin")
        secid_idx == IndexOf(answer.columns, "secid")
        Matching == {i \in 1..Len(answer.data) :
                        Len(answer.data[i]) >= isin_idx /\ answer.data[i][isin_idx] = isin}
        matching_row == answer.data[CHOOSE i \in Matching : \A j \in Matching : i <= j]
    IN  IF answer.status # "ok" THEN miss
        ELSE IF answer.data = <<>> THEN miss
        ELSE IF isin_idx = 0 THEN miss
        ELSE IF Matching = {} THEN miss
        ELSE IF secid_idx = 0 \/ secid_idx > Len(matching_row) THEN miss
        ELSE IF matching_row[secid_idx] = "" THEN miss
        ELSE [found |-> TRUE, secid |-> matching_row[secid_idx],
              info |-> RowDict(answer.columns, matching_row)]

\* EmitentService._fetch_emitent_from_moex_by_isin, lines 210-252: the same
\* search without the SECID checks and without storing: [found, info]
fetch_emitent_from_moex_by_isin(isin, answer) ==
    LET miss == [found |-> FALSE, info |-> <<>>]
        isin_idx == IndexOf(answer.columns, "isin")
        Matching == {i \in 1..Len(answer.data) :
                        Len(answer.data[i]) >= isin_idx /\ answer.data[i][isin_idx] = isin}
    IN  IF answer.status # "ok" THEN miss
        ELSE IF answer.data = <<>> THEN miss
        ELSE IF isin_idx = 0 THEN miss
        ELSE IF Matching = {} THEN miss
        ELSE [found |-> TRUE,
              info |-> RowDict(answer.columns,
                               answer.data[CHOOSE i \in Matching : \A j \in Matching : i <= j])]

\* one pass of a batch loop: the instrument, whether its origin request was
\* sent and how it ended ("ok", "failed", or "none"), and the counter the
\* loop incremented for it
Attempt(secid, fetch, counted) == [secid |-> secid, fetch |-> fetch, counted |-> counted]

\* how many passes incremented the counter
RECURSIVE Count(_, _)
Count(attempts, counted) ==
    IF attempts = <<>> THEN 0
    ELSE (IF Head(attempts).counted = counted THEN 1 ELSE 0) + Count(Tail(attempts), counted)

\* EmitentService.refresh_all_emitents, lines 275-302: the loop over
\* bonds_details.items(), a sequence of [secid, securities] in dict order;
\* answers: what the origin answers for each instrument;
\* acc = [cache, attempts]
RECURSIVE EmitentLoop(_, _, _)
EmitentLoop(items, answers, acc) ==
    IF items = <<>> THEN acc
    ELSE LET secid == Head(items).secid
             securities == Head(items).securities
             f == fetch_emitent_from_moex_by_isin(securities.ISIN, answers[secid])
             next ==
                 IF "ISIN" \notin DOMAIN securities \/ securities.ISIN = ""
                 THEN [acc EXCEPT !.attempts = Append(@, Attempt(secid, "none", "skipped"))]
                 ELSE IF f.found
                 THEN [cache |-> WithKey(acc.cache, secid, f.info),
                       attempts |-> Append(acc.attempts, Attempt(secid, "ok", "updated"))]
                 ELSE [acc EXCEPT !.attempts =
                          Append(@, Attempt(secid,
                                            IF answers[secid].status = "ok" THEN "ok" ELSE "failed",
                                            "error"))]
         IN  EmitentLoop(Tail(items), answers, next)

\* lines 309-314 (and the routes' summaries): the counters a batch returns
Summary(total, attempts) ==
    [total |-> total, updated |-> Count(attempts, "updated"),
     errors |-> Count(attempts, "error"), skipped |-> Count(attempts, "skipped")]

----------------------------------------------------------------------------
(* The origin (MOEX) and the initial contents of durable storage *)

\* one row of the origin's "coupons" table: the payment plus the fields the
\* origin repeats on every row
RawCoupon(d, v) ==
    [coupondate |-> IsoFormat(d), value |-> v, isin |-> "RU000A", name |-> "bond",
     issuevalue |-> 1000, primary_boardid |-> "TQCB", secid |-> "S"]

Amort(d) == [amortdate |-> IsoFormat(d)]

\* what _download_coupons_from_moex can return for an instrument
OriginPayloads ==
    { [amortizations |-> <<Amort(40)>>,
       coupons |-> <<RawCoupon(10, 5000), RawCoupon(20, 5004), RawCoupon(30, 5000), RawCoupon(40, 5000)>>,
       offers |-> <<>>],
      [amortizations |-> <<Amort(30), Amort(40)>>,
       coupons |-> <<RawCoupon(10, 5000), RawCoupon(20, 7000), RawCoupon(30, 5000), RawCoupon(40, 7000)>>,
       offers |-> <<>>],
      [amortizations |-> <<>>,
       coupons |-> <<RawCoupon(20, 3000)>>,
       offers |-> <<>>] }

\* an entry in the layout older versions wrote: the label sits on the coupons
\* (with the other repeated fields) and the amortizations carry none
OldLayoutEntry(date) ==
    [last_updated |-> date,
     amortizations |-> <<Amort(40)>>,
     coupons |-> <<WithKey(RawCoupon(10, 5000), "coupon_type", "FLOAT"),
                   WithKey(RawCoupon(20, 5000), "coupon_type", "FLOAT")>>,
     offers |-> <<>>]

InitCouponFiles ==
    { <<>>,
      [A |-> OldLayoutEntry(IsoFormat(0))],
      [A |-> OldLayoutEntry(EmptyDate)],
      [B |-> OldLayoutEntry(BadDate)] }

StaticSource ==
    [securities |-> <<[SECID |-> "A", BOARDID |-> "TQCB", SHORTNAME |-> "a"],
                      [SECID |-> "B", BOARDID |-> "TQCB", SHORTNAME |-> "b"]>>,
     marketdata |-> <<[SECID |-> "A", BOARDID |-> "TQCB", TRADINGSTATUS |-> "T",
                       DURATION |-> Some(100)]>>,
     marketdata_yields |-> <<[SECID |-> "A", DURATIONWAPRICE |-> 90]>>]

NoFile == [state |-> "missing", data |-> <<>>]

CorruptFile == [state |-> "corrupt", data |-> <<>>]

\* one rating as the origin's API reports it: the five kept keys and more
RawRating(agency, level) ==
    [agency_id |-> 1, agency_name_short_ru |-> agency, rating_level_id |-> 7,
     rating_date |-> "2024-05-01", rating_level_name_short_ru |-> level, secid |-> "S"]

Rating(agency, level) == filter_rating_keys(RawRating(agency, level))

RatingColumns == <<"agency_id", "agency_name_short_ru", "rating_level_id", "rating_date",
                   "rating_level_name_short_ru", "secid">>

\* what the instrument's HTML page request can yield
HtmlAnswers ==
    { [status |-> "failed", links |-> <<>>],
      [status |-> "ok", links |-> <<>>],
      [status |-> "ok", links |-> <<[target |-> "issue.aspx", id |-> Some(7)],
                                   [target |-> "emidocs.aspx", id |-> None]>>],
      [status |-> "ok", links |-> <<[target |-> "issue.aspx", id |-> Some(7)],
                                   [target |-> "EMIDOCS.ASPX", id |-> Some(4195)]>>] }

NoJson == [shape |-> "scalar"]

\* what the ratings API request can yield
ApiAnswers ==
    { [status |-> "failed", json |-> NoJson],
      [status |-> "invalid_json", json |-> NoJson],
      [status |-> "ok", json |-> NoJson],
      [status |-> "ok",
       json |-> [shape |-> "list",
                 items |-> <<[charsetinfo |-> "utf-8"],
                             [cci_rating_securities |->
                                 [shape |-> "list",
                                  items |-> <<RawRating("AKRA", "AA(RU)"),
                                              RawRating("Expert RA", "ruAA")>>]]>>]],
      [status |-> "ok",
       json |-> [shape |-> "list", items |-> <<[charsetinfo |-> "utf-8"],
                                               RawRating("AKRA", "A(RU)")>>]],
      [status |-> "ok",
       json |-> [shape |-> "dict",
                 body |-> [cci_rating_securities |->
                              [shape |-> "table", columns |-> RatingColumns,
                               data |-> << <<1, "AKRA", 7, "2024-05-01", "AA(RU)", "S">>,
                                           <<1, "AKRA">> >>]]]],
      [status |-> "ok",
       json |-> [shape |-> "dict",
                 body |-> [cci_rating_securities |->
                              [shape |-> "list", items |-> <<[secid |-> "S"]>>]]]],
      [status |-> "ok",
       json |-> [shape |-> "dict",
                 body |-> [securities |->
                              [shape |-> "dict",
                               body |-> [cci_rating_securities |->
                                            [shape |-> "list",
                                             items |-> <<RawRating("AKRA", "AA(RU)")>>]]]]]] }

\* an entry of the rating file; fmt: "new" ({last_updated, ratings}), "cci"
\* ({cci_rating_securities}), "array" (a bare list) or "other"
RatingEntry(fmt, last_updated, ratings) ==
    [fmt |-> fmt, last_updated |-> last_updated, is_list |-> TRUE, ratings |-> ratings]

NotAList(fmt, last_updated) ==
    [fmt |-> fmt, last_updated |-> last_updated, is_list |-> FALSE, ratings |-> <<>>]

InitRatingFiles ==
    { NoFile,
      CorruptFile,
      [state |-> "ok",
       data |-> [A |-> RatingEntry("new", IsoFormat(0), <<Rating("AKRA", "AA(RU)")>>)]],
      [state |-> "ok",
       data |-> [A |-> RatingEntry("new", IsoFormat(0), <<>>),
                 B |-> RatingEntry("array", EmptyDate, <<Rating("AKRA", "AA(RU)")>>)]],
      [state |-> "ok",
       data |-> [A |-> RatingEntry("new", EmptyDate, <<Rating("AKRA", "AA(RU)")>>),
                 B |-> RatingEntry("cci", EmptyDate, <<>>)]],
      [state |-> "ok",
       data |-> [A |-> NotAList("new", IsoFormat(0)),
                 B |-> RatingEntry("new", BadDate, <<Rating("AKRA", "AA(RU)")>>)]] }

InitEmitentFiles ==
    { NoFile,
      [state |-> "ok", data |-> [B |-> [type |-> "corporate_bond"]]] }

\* the ISIN the static source gives for each security (securities.ISIN)
IsinOf == [A |-> "RU000A", B |-> "RU000B"]

EmitentColumns == <<"secid", "isin", "type", "emitent_title">>

\* what the search request securities.json?q=<isin> can yield
EmitentAnswers ==
    { [status |-> "failed", columns |-> <<>>, data |-> <<>>],
      [status |-> "invalid_json", columns |-> <<>>, data |-> <<>>],
      [status |-> "ok", columns |-> EmitentColumns, data |-> <<>>],
      [status |-> "ok", columns |-> <<"secid", "type">>,
       data |-> << <<"A", "corporate_bond">> >>],
      [status |-> "ok", columns |-> EmitentColumns,
       data |-> << <<"Z", "RU000Z", "ofz_bond", "MinFin">> >>],
      [status |-> "ok", columns |-> <<"isin", "type">>,
       data |-> << <<"RU000A", "corporate_bond">>, <<"RU000B", "exchange_bond">> >>],
      [status |-> "ok", columns |-> EmitentColumns,
       data |-> << <<"", "RU000A", "corporate_bond", "Issuer">>,
                   <<"", "RU000B", "exchange_bond", "Issuer">> >>],
      [status |-> "ok", columns |-> EmitentColumns,
       data |-> << <<"AR", "RU000A", "corporate_bond", "Issuer">> >>],
      [status |-> "ok", columns |-> EmitentColumns,
       data |-> << <<"Z", "RU000Z", "ofz_bond", "MinFin">>,
                   <<"A", "RU000A", "corporate_bond", "Issuer">>,
                   <<"B", "RU000B", "exchange_bond", "Issuer">> >>] }

\* the bonds_details a batch refresh of issuers is called with, in dict order
BatchDetails ==
    { << [secid |-> "A", securities |-> [SECID |-> "A", ISIN |-> "RU000A"]],
         [secid |-> "B", securities |-> [SECID |-> "B", ISIN |-> "RU000B"]] >>,
      << [secid |-> "B", securities |-> [SECID |-> "B"]],
         [secid |-> "A", securities |-> [SECID |-> "A", ISIN |-> "RU000A"]] >>,
      << [secid |-> "A", securities |-> [SECID |-> "A", ISIN |-> ""]] >> }

\* how the coupon download of one instrument can end during a batch
CouponOutcomes ==
    {[download |-> "error"]} \cup {[download |-> "ok", data |-> p] : p \in OriginPayloads}

\* data/columns.json and data/describe.json
ColumnsFile ==
    [securities |-> [columns |-> <<"id", "name", "short_title">>,
                     data |-> << <<1, "SECID", "Code">>, <<2, "SHORTNAME", "">>,
                                 <<3, "BOARDID">> >>],
     marketdata |-> [columns |-> <<"id", "name", "short_title">>,
                     data |-> << <<4, "SECID", "Instrument">>, <<5, "DURATION", "Duration">> >>],
     marketdata_yields |-> [columns |-> <<"id", "name">>,
                            data |-> << <<6, "DURATIONWAPRICE">> >>]]

DescribeFile == [SECID |-> "security code"]

\* what the download of the static source can yield: a failed request, a
\* body that is not JSON, or a payload
StaticPayloads ==
    { StaticSource,
      [securities |-> <<[SECID |-> "B", BOARDID |-> "TQOB", SHORTNAME |-> "b"],
                        [SECID |-> "A", BOARDID |-> "TQCB", SHORTNAME |-> "a"],
                        [SECID |-> "B", BOARDID |-> "TQCB", SHORTNAME |-> "b"]>>,
       marketdata |-> <<[SECID |-> "B", BOARDID |-> "TQCB", TRADINGSTATUS |-> "N",
                         DURATION |-> Some(200)]>>,
       marketdata_yields |-> <<>>] }

StaticDownloads ==
    {[status |-> "failed"], [status |-> "invalid_json"]}
        \cup {[status |-> "ok", payload |-> p] : p \in StaticPayloads}

\* a payload that is a JSON object without the three sections (the body of
\* an error answer, say): data.get(section, {}) at data_loader.py:108-121
\* reads each section as one without columns and rows
NoSections == [securities |-> <<>>, marketdata |-> <<>>, marketdata_yields |-> <<>>]

ReplaceDownloads == StaticDownloads \cup {[status |-> "ok", payload |-> NoSections]}

\* static sources for the market-data join: security A on two boards, in
\* either order around B, and up to two market-data rows out of: an exact
\* board match, a board no record has, a row without board, a row with an
\* empty status and an unparsable duration, a security without records, a
\* row with neither status nor duration
JoinSecurities ==
    { <<[SECID |-> "A", BOARDID |-> "TQCB", SHORTNAME |-> "a"],
        [SECID |-> "A", BOARDID |-> "TQOB", SHORTNAME |-> "a"],
        [SECID |-> "B", BOARDID |-> "TQCB", SHORTNAME |-> "b"]>>,
      <<[SECID |-> "A", BOARDID |-> "TQOB", SHORTNAME |-> "a"],
        [SECID |-> "B", BOARDID |-> "TQCB", SHORTNAME |-> "b"],
        [SECID |-> "A", BOARDID |-> "TQCB", SHORTNAME |-> "a"]>> }

JoinRows ==
    { [SECID |-> "A", BOARDID |-> "TQCB", TRADINGSTATUS |-> "T", DURATION |-> <<100>>],
      [SECID |-> "A", BOARDID |-> "TQIR", TRADINGSTATUS |-> "N", DURATION |-> <<"str", " 7 ">>],
      [SECID |-> "A", TRADINGSTATUS |-> "S", DURATION |-> <<>>],
      [SECID |-> "B", BOARDID |-> "TQCB", TRADINGSTATUS |-> "", DURATION |-> <<"str", "nan">>],
      [SECID |-> "C", BOARDID |-> "TQCB", TRADINGSTATUS |-> "T", DURATION |-> <<1>>],
      [SECID |-> "A", BOARDID |-> "TQOB"] }

\* longest market-data section of a join source
MaxJoinRows == 2

\* yield-curve sections: each row carries its own DURATION next to
\* DURATIONWAPRICE (a null DURATIONWAPRICE is a field the record lacks)
JoinYields ==
    { <<>>,
      <<[SECID |-> "A", DURATION |-> 55, DURATIONWAPRICE |-> 90]>>,
      <<[SECID |-> "A", DURATION |-> 55, DURATIONWAPRICE |-> 90],
        [SECID |-> "A", DURATION |-> 56, DURATIONWAPRICE |-> 91]>>,
      <<[SECID |-> "A", DURATION |-> 55],
        [SECID |-> "B", DURATION |-> 57, DURATIONWAPRICE |-> 0],
        [SECID |-> "A", DURATION |-> 56, DURATIONWAPRICE |-> 91]>>,
      <<[SECID |-> "C", DURATION |-> 58, DURATIONWAPRICE |-> 92],
        [SECID |-> "B", DURATION |-> 57, DURATIONWAPRICE |-> 0],
        [SECID |-> "B", DURATION |-> 57, DURATIONWAPRICE |-> 93]>> }

JoinSources ==
    { [securities |-> secs, marketdata |-> md, marketdata_yields |-> ys] :
         secs \in JoinSecurities,
         md \in UNION {[1..n -> JoinRows] : n \in 0..MaxJoinRows},
         ys \in JoinYields }

\* list records for the filter: (coupon rate, yield, currency, listing
\* tier, rating string); the remaining attributes are the same for all
FilterItem(secid, coupon, yld, unit, level, rating) ==
    [SECID |-> secid, COUPONPERCENT |-> coupon, YIELDATPREVWAPRICE |-> yld,
     FACEUNIT |-> unit, LISTLEVEL |-> level, RATING_LEVEL |-> rating,
     COUPONVALUE |-> Some(20), PREVPRICE |-> Some(100), FACEVALUE |-> Some(1000),
     COUPONPERIOD |-> Some(182), MATDATE |-> Some(10)]

FilterLists ==
    { <<FilterItem("X1", Some(4), Some(4), Some("RUB"), Some(1), Some(<<"A", "+", "(", "R", "U", ")">>)),
        FilterItem("X2", Some(6), Some(6), Some("RUB"), Some(2), Some(<<"A", "A", "A">>)),
        FilterItem("X3", Some(9), Some(9), Some("USD"), None, None)>>,
      <<FilterItem("Z0", Some(0), Some(0), Some("RUB"), Some(1), Some(<<"r", "u", "A", "A", "+">>)),
        [FilterItem("N0", None, None, None, None, Some(<<"A", "A", "+", "(", "R", "U", ")">>))
            EXCEPT !.COUPONPERIOD = None, !.MATDATE = None],
        FilterItem("P5", Some(5), Some(8), Some("EUR"), Some(3), Some(<<"A">>)),
        [FilterItem("Q8", Some(8), Some(5), Some("RUB"), Some(1), Some(<<"A", "A">>))
            EXCEPT !.COUPONVALUE = Some(40), !.MATDATE = Some(20)],
        FilterItem("E6", Some(6), Some(6), Some("RUB"), Some(2), Some(<<>>))>> }

NoFilters ==
    [coupon_min |-> None, coupon_max |-> None, yield_min |-> None, yield_max |-> None,
     coupon_yield_min |-> None, coupon_yield_max |-> None,
     matdate_from |-> None, matdate_to |-> None,
     listlevel |-> <<>>, faceunit |-> <<>>, bondtype |-> <<>>, coupon_type |-> <<>>,
     rating_min |-> None, rating_max |-> None]

\* the labels a rating range is asked with; the last is on no scale
RangeLabels == {None, Some(<<"A", "A", "A">>), Some(<<"A", "A", "+">>), Some(<<"A", "A">>), Some(<<"A">>), Some(<<"Z", "Z">>)}

\* filter specifications: numeric ranges with a currency, rating ranges,
\* and the remaining criteria one or two at a time
FilterSpecs ==
    { [NoFilters EXCEPT !.coupon_min = cmin, !.coupon_max = cmax,
                        !.yield_min = ymin, !.yield_max = ymax, !.faceunit = unit] :
         cmin \in {None, Some(0), Some(5)}, cmax \in {None, Some(8)},
         ymin \in {None, Some(0)}, ymax \in {None, Some(8)},
         unit \in {<<>>, <<"RUB">>, <<"RUB", "EUR">>} }
    \cup
    { [NoFilters EXCEPT !.rating_min = rmin, !.rating_max = rmax] :
         rmin \in RangeLabels, rmax \in RangeLabels }
    \cup
    { [NoFilters EXCEPT !.coupon_yield_min = lo, !.coupon_yield_max = hi,
                        !.matdate_from = from, !.matdate_to = to] :
         lo \in {None, Some(5)}, hi \in {None, Some(5)},
         from \in {None, Some(10)}, to \in {None, Some(10)} }
    \cup
    { [NoFilters EXCEPT !.listlevel = levels, !.bondtype = types,
                        !.coupon_type = regimes, !.faceunit = unit] :
         levels \in {<<>>, <<1, 2>>}, types \in {<<>>, <<"ofz_bond">>},
         regimes \in {<<>>, <<"FIX">>}, unit \in {<<>>, <<"GBP">>} }

\* payment sequences for the classifier, amounts in thousandths: every
\* sequence of up to MaxShort payments over 1.00, 1.10 and 1.25, and the
\* sequences of MaxPayments payments over two amounts 0.10 apart in which the
\* higher amount occurs at most twice
MaxShort == 5

MaxPayments == 10

ShortPayments == UNION {[1..n -> {1000, 1100, 1250}] : n \in 0..MaxShort}

LongPayments(lower) ==
    {p \in [1..MaxPayments -> {lower, lower + 100}] :
        Cardinality({i \in 1..MaxPayments : p[i] = lower + 100}) <= 2}

PaymentSequences == ShortPayments \cup LongPayments(1000) \cup LongPayments(5000)

----------------------------------------------------------------------------
(* Observation of the last call *)

NoEntry == [last_updated |-> EmptyDate, amortizations |-> <<>>, coupons |-> <<>>,
            offers |-> <<>>]

\* op: the operation; outcome: "ok" (returned) or "raise"; path: the branch
\* taken; entry / bonds / details / ratings: the value returned; net: origin
\* requests sent; classified: detect_coupon_type was run; after: the ids
\* force-refreshed since the previous get_bonds; rebuilt: _load_bonds_data ran;
\* html / api_status: what the origin answered to a rating fetch; download:
\* how the coupon download ended; labels: the coupon type _load_bonds_data
\* read for each row; known: the id had an entry in the rating data;
\* answer: the origin's answer to an issuer search; emitent: the issuer
\* record returned (None or Some); items / attempts / summary: the
\* instruments a batch refresh was given, its passes, the counters returned;
\* raced: a coupon write completed while the call was in flight; counts:
\* the row counts a static-source replacement returns; mapping: the column
\* names or descriptions a metadata read returns
NoCall ==
    [op |-> "none", secid |-> "", force |-> FALSE, outcome |-> "ok", path |-> "",
     entry |-> NoEntry, bonds |-> <<>>, details |-> <<>>, ratings |-> <<>>,
     net |-> 0, api |-> 0, classified |-> FALSE, after |-> {}, rebuilt |-> FALSE,
     html |-> [status |-> "none", links |-> <<>>], api_status |-> "none",
     download |-> "none", labels |-> <<>>, known |-> FALSE,
     answer |-> [status |-> "none", columns |-> <<>>, data |-> <<>>],
     emitent |-> <<>>, attempts |-> <<>>,
     summary |-> [total |-> 0, updated |-> 0, errors |-> 0, skipped |-> 0],
     items |-> <<>>, raced |-> FALSE,
     counts |-> [securities |-> 0, marketdata |-> 0, marketdata_yields |-> 0],
     mapping |-> <<>>]

Call(op, secid, force, path) ==
    [NoCall EXCEPT !.op = op, !.secid = secid, !.force = force, !.path = path]

----------------------------------------------------------------------------
(* Actions: CouponService.get_coupons *)

\* lines 178-214: answered from the cache
GetCouponsHit(secid, force_refresh) ==
    /\ IsHit(coupons_file, secid, force_refresh, today)
    /\ last' = [Call("get_coupons", secid, force_refresh, "hit") EXCEPT
                   !.entry = HitValue(coupons_file[secid])]
    /\ UNCHANGED <<today, bonds_file, coupons_file, coupons_cache, rating_file,
                   rating_cache, emitent_file, bonds_cache, details_cache,
                   refreshed, rated_on>>

\* lines 216-226: the download raised
\* (variant: the failure always reaches the caller)
GetCouponsFailedRaising(secid, force_refresh) ==
    /\ ~IsHit(coupons_file, secid, force_refresh, today)
    /\ last' = [Call("get_coupons", secid, force_refresh, "failed") EXCEPT
                   !.outcome = "raise", !.net = 1, !.download = "error"]
    /\ UNCHANGED <<today, bonds_file, coupons_file, coupons_cache, rating_file,
                   rating_cache, emitent_file, bonds_cache, details_cache,
                   refreshed, rated_on>>

\* (variant: the failure empties the snapshot as a refresh does)
GetCouponsFailedClearing(secid, force_refresh) ==
    /\ ~IsHit(coupons_file, secid, force_refresh, today)
    /\ last' = IF secid \in DOMAIN coupons_file
               THEN [Call("get_coupons", secid, force_refresh, "fallback") EXCEPT
                        !.entry = FallbackValue(coupons_file[secid]), !.net = 1,
                        !.download = "error"]
               ELSE [Call("get_coupons", secid, force_refresh, "failed") EXCEPT
                        !.outcome = "raise", !.net = 1, !.download = "error"]
    /\ coupons_cache' = None
    /\ bonds_cache' = None
    /\ details_cache' = None
    /\ UNCHANGED <<today, bonds_file, coupons_file, rating_file, rating_cache,
                   emitent_file, refreshed, rated_on>>

GetCouponsFailed(secid, force_refresh) ==
    /\ ~IsHit(coupons_file, secid, force_refresh, today)
    /\ last' = IF secid \in DOMAIN coupons_file
               THEN [Call("get_coupons", secid, force_refresh, "fallback") EXCEPT
                        !.entry = FallbackValue(coupons_file[secid]), !.net = 1,
                        !.download = "error"]
               ELSE [Call("get_coupons", secid, force_refresh, "failed") EXCEPT
                        !.outcome = "raise", !.net = 1, !.download = "error"]
    /\ UNCHANGED <<today, bonds_file, coupons_file, coupons_cache, rating_file,
                   rating_cache, emitent_file, bonds_cache, details_cache,
                   refreshed, rated_on>>

\* lines 216-265: the download succeeded
GetCouponsRefresh(secid, force_refresh) ==
    /\ ~IsHit(coupons_file, secid, force_refresh, today)
    /\ \E fresh_data \in OriginPayloads :
          LET bond_entry == BondEntry(fresh_data, today)
          IN  /\ coupons_file' = WithKey(coupons_file, secid, bond_entry)
              /\ last' = [Call("get_coupons", secid, force_refresh, "refresh") EXCEPT
                             !.entry = bond_entry, !.net = 1, !.classified = TRUE,
                             !.download = "ok"]
    /\ coupons_cache' = None
    /\ bonds_cache' = None
    /\ details_cache' = None
    /\ refreshed' = IF force_refresh THEN refreshed \cup {secid} ELSE refreshed
    /\ UNCHANGED <<today, bonds_file, rating_file, rating_cache, emitent_file, rated_on>>

GetCoupons(secid, force_refresh) ==
    \/ GetCouponsHit(secid, force_refresh)
    \/ GetCouponsFailed(secid, force_refresh)
    \/ GetCouponsRefresh(secid, force_refresh)

\* get_coupons from its first line on: _read_data (lines 32-38, called at
\* line 178) parses the file with nothing around it, so a file that is not
\* JSON ends the call with orjson.JSONDecodeError before anything else runs
GetCouponsUnreadable(secid, force_refresh) ==
    /\ ~coupons_valid
    /\ last' = [Call("get_coupons", secid, force_refresh, "unreadable") EXCEPT
                   !.outcome = "raise"]
    /\ UNCHANGED <<today, bonds_file, coupons_file, coupons_cache, rating_file,
                   rating_cache, emitent_file, bonds_cache, details_cache,
                   refreshed, rated_on, ext>>

GetCouponsRead(secid, force_refresh) ==
    \/ GetCouponsUnreadable(secid, force_refresh)
    \/ coupons_valid /\ GetCoupons(secid, force_refresh) /\ UNCHANGED ext

----------------------------------------------------------------------------
(* Actions: RatingService.get_rating *)

\* lines 423-489: answered without a request
GetRatingCached(secid, boardid, force_refresh) ==
    LET l == load_rating_data(rating_cache, rating_file)
    IN  /\ ~RatingNeedsFetch(l.data, secid, force_refresh, today)
        /\ rating_cache' = Some(l.data)
        /\ rating_file' = l.file
        /\ last' = [Call("get_rating", secid, force_refresh,
                         IF secid \in DOMAIN l.data THEN "cached" ELSE "placeholder") EXCEPT
                       !.ratings = CachedRatings(l.data, secid),
                       !.known = secid \in DOMAIN l.data]
        /\ UNCHANGED <<today, bonds_file, coupons_file, coupons_cache, emitent_file,
                       bonds_cache, details_cache, refreshed, rated_on>>

\* lines 423-528: the origin is asked and the outcome saved
GetRatingFetch(secid, boardid, force_refresh) ==
    LET l == load_rating_data(rating_cache, rating_file)
    IN  /\ RatingNeedsFetch(l.data, secid, force_refresh, today)
        /\ \E html \in HtmlAnswers, api \in ApiAnswers :
              LET f == FetchGuarded(html, api)
                  data == WithKey(l.data, secid, NewRatingEntry(f.ratings, today))
                  call == [Call("get_rating", secid, force_refresh, "fetch") EXCEPT
                              !.net = f.net, !.api = f.api, !.html = html,
                              !.api_status = IF f.api = 1 THEN api.status ELSE "none",
                              !.known = secid \in DOMAIN l.data]
              IN  IF f.raised
                  THEN /\ rating_cache' = Some(l.data)
                       /\ rating_file' = l.file
                       /\ rated_on' = rated_on
                       /\ last' = [call EXCEPT !.outcome = "raise"]
                  ELSE /\ rating_cache' = Some(data)
                       /\ rating_file' = [state |-> "ok", data |-> data]
                       /\ rated_on' = [rated_on EXCEPT ![secid] = Some(today)]
                       /\ last' = [call EXCEPT !.ratings = f.ratings]
        /\ UNCHANGED <<today, bonds_file, coupons_file, coupons_cache, emitent_file,
                       bonds_cache, details_cache, refreshed>>

GetRating(secid, boardid, force_refresh) ==
    \/ GetRatingCached(secid, boardid, force_refresh)
    \/ GetRatingFetch(secid, boardid, force_refresh)

----------------------------------------------------------------------------
(* Actions: EmitentService.get_or_fetch_emitent *)

\* lines 167-170: the record is in the cache
GetOrFetchEmitentCached(secid, isin) ==
    LET l == load_emitent_data(emitent_cache, emitent_file)
    IN  /\ secid \in DOMAIN l.data
        /\ emitent_cache' = Some(l.data)
        /\ emitent_file' = l.file
        /\ last' = [Call("get_or_fetch_emitent", secid, FALSE, "cached") EXCEPT
                       !.emitent = Some(l.data[secid])]

\* lines 172-174: the origin is searched by ISIN
GetOrFetchEmitentFetch(secid, isin) ==
    LET l == load_emitent_data(emitent_cache, emitent_file)
    IN  /\ secid \notin DOMAIN l.data
        /\ \E answer \in EmitentAnswers :
              LET f == fetch_emitent_from_moex(isin, answer)
                  data == IF f.found THEN WithKey(l.data, f.secid, f.info) ELSE l.data
              IN  /\ emitent_cache' = Some(data)
                  /\ emitent_file' = IF f.found THEN [state |-> "ok", data |-> data]
                                     ELSE l.file
                  /\ last' = [Call("get_or_fetch_emitent", secid, FALSE,
                                   IF f.found THEN "found" ELSE "miss") EXCEPT
                                 !.net = 1, !.answer = answer,
                                 !.emitent = IF f.found THEN Some(f.info) ELSE None]

GetOrFetchEmitent(secid, isin) ==
    /\ \/ GetOrFetchEmitentCached(secid, isin)
       \/ GetOrFetchEmitentFetch(secid, isin)
    /\ UNCHANGED <<today, bonds_file, coupons_file, coupons_cache, rating_file,
                   rating_cache, bonds_cache, details_cache, refreshed, rated_on,
                   coupons_valid, columns_cache, descriptions_cache, threads>>

\* EmitentService.refresh_all_emitents, lines 267-314
RefreshAllEmitents(bonds_details) ==
    LET l == load_emitent_data(emitent_cache, emitent_file)
    IN  /\ \E answers \in [SECIDS -> EmitentAnswers] :
              LET end == EmitentLoop(bonds_details, answers,
                                     [cache |-> l.data, attempts |-> <<>>])
                  summary == Summary(Len(bonds_details), end.attempts)
              IN  /\ emitent_cache' = Some(end.cache)
                  /\ emitent_file' = IF summary.updated > 0
                                     THEN [state |-> "ok", data |-> end.cache]
                                     ELSE l.file
                  /\ last' = [Call("refresh_all_emitents", "", FALSE, "") EXCEPT
                                 !.items = [i \in 1..Len(bonds_details) |-> bonds_details[i].secid],
                                 !.attempts = end.attempts, !.summary = summary]
        /\ UNCHANGED <<today, bonds_file, coupons_file, coupons_cache, rating_file,
                       rating_cache, bonds_cache, details_cache, refreshed, rated_on,
                       coupons_valid, columns_cache, descriptions_cache, threads>>

----------------------------------------------------------------------------
(* Actions: DataLoader *)

\* _load_bonds_data as run by a reader that found its cache empty
Reload == load_bonds_data(bonds_file, coupons_cache, coupons_file, rating_file,
                          emitent_file, today)

\* lines 25-26 / 31-32: `if self._bonds_cache is None: self._load_bonds_data()`
\* with r what _load_bonds_data computes; when it raises the caches stay
\* empty and the call fails
StoreLoaded(r) ==
    /\ coupons_cache' = r.coupons_cache
    /\ bonds_cache' = IF r.ok THEN Some(r.bonds) ELSE bonds_cache
    /\ details_cache' = IF r.ok THEN Some(r.details) ELSE details_cache

BondsLoaded(r) ==
    /\ StoreLoaded(r)
    /\ last' = [Call("get_bonds", "", FALSE, "load") EXCEPT
                   !.outcome = IF r.ok THEN "ok" ELSE "raise",
                   !.bonds = IF r.ok THEN r.bonds ELSE <<>>,
                   !.after = refreshed, !.rebuilt = TRUE,
                   !.labels = r.labels]

DetailsLoaded(r) ==
    /\ StoreLoaded(r)
    /\ last' = [Call("get_bond_details", "", FALSE, "load") EXCEPT
                   !.outcome = IF r.ok THEN "ok" ELSE "raise",
                   !.details = IF r.ok THEN r.details ELSE <<>>,
                   !.rebuilt = TRUE]

\* DataLoader.get_bonds
GetBonds ==
    /\ IF bonds_cache # None
       THEN /\ last' = [Call("get_bonds", "", FALSE, "cached") EXCEPT
                           !.bonds = bonds_cache[1], !.after = refreshed]
            /\ UNCHANGED <<bonds_cache, details_cache, coupons_cache>>
       ELSE BondsLoaded(Reload)
    /\ refreshed' = {}
    /\ UNCHANGED <<today, bonds_file, coupons_file, rating_file, rating_cache,
                   emitent_file, rated_on>>

\* DataLoader.get_bond_details
GetBondDetails ==
    /\ IF details_cache # None
       THEN /\ last' = [Call("get_bond_details", "", FALSE, "cached") EXCEPT
                           !.details = details_cache[1]]
            /\ UNCHANGED <<bonds_cache, details_cache, coupons_cache>>
       ELSE DetailsLoaded(Reload)
    /\ UNCHANGED <<today, bonds_file, coupons_file, rating_file, rating_cache,
                   emitent_file, refreshed, rated_on>>

\* DataLoader.clear_bonds_cache (variant: only the list is emptied)
ClearListOnly ==
    /\ bonds_cache' = None
    /\ last' = Call("clear_bonds_cache", "", FALSE, "")
    /\ UNCHANGED <<today, bonds_file, coupons_file, coupons_cache, rating_file,
                   rating_cache, emitent_file, details_cache, refreshed, rated_on>>

\* DataLoader.clear_bonds_cache
ClearBondsCache ==
    /\ bonds_cache' = None
    /\ details_cache' = None
    /\ last' = Call("clear_bonds_cache", "", FALSE, "")
    /\ UNCHANGED <<today, bonds_file, coupons_file, coupons_cache, rating_file,
                   rating_cache, emitent_file, refreshed, rated_on>>

----------------------------------------------------------------------------
(* Actions: DataLoader.get_bonds statement by statement.  The reader runs   *)
(* on the event loop while get_coupons runs on a worker thread             *)
(* (asyncio.to_thread, routers/bonds.py:191 and :240-247); DataLoader has   *)
(* no lock, so the worker's statements fall between the reader's.          *)

\* a call of thread t at position pc; raced: a coupon write and its
\* invalidation completed while the call was in flight
InFlight(pc, bonds, details, raced) ==
    [pc |-> pc, bonds |-> bonds, details |-> details, raced |-> raced]

\* line 25: `if self._bonds_cache is None`
GetBondsBegin(t) ==
    /\ threads[t].pc = "idle"
    /\ threads' = [threads EXCEPT ![t] =
                      InFlight(IF bonds_cache = None THEN "load" ELSE "return",
                               <<>>, <<>>, FALSE)]
    /\ UNCHANGED <<today, bonds_file, coupons_file, coupons_cache, rating_file,
                   rating_cache, emitent_file, bonds_cache, details_cache, refreshed,
                   rated_on, last, coupons_valid, emitent_cache, columns_cache,
                   descriptions_cache>>

\* lines 101-294: _load_bonds_data reads the files and builds its local
\* bonds_list and details_map (r); when it raises, so does get_bonds
LoadRead(t, r) ==
    /\ threads[t].pc = "load"
    /\ coupons_cache' = r.coupons_cache
    /\ IF r.ok
       THEN /\ threads' = [threads EXCEPT ![t] =
                              InFlight("store_bonds", r.bonds, r.details, @.raced)]
            /\ UNCHANGED <<last, refreshed>>
       ELSE /\ threads' = [threads EXCEPT ![t] = Idle]
            /\ last' = [Call("get_bonds", "", FALSE, "load") EXCEPT
                           !.outcome = "raise", !.rebuilt = TRUE]
            /\ refreshed' = {}
    /\ UNCHANGED <<today, bonds_file, coupons_file, rating_file, rating_cache,
                   emitent_file, bonds_cache, details_cache, rated_on, coupons_valid,
                   emitent_cache, columns_cache, descriptions_cache>>

\* line 295: `self._bonds_cache = bonds_list`
StoreBonds(t) ==
    /\ threads[t].pc = "store_bonds"
    /\ bonds_cache' = Some(threads[t].bonds)
    /\ threads' = [threads EXCEPT ![t].pc = "store_details"]
    /\ UNCHANGED <<today, bonds_file, coupons_file, coupons_cache, rating_file,
                   rating_cache, emitent_file, details_cache, refreshed, rated_on, last,
                   coupons_valid, emitent_cache, columns_cache, descriptions_cache>>

\* line 296: `self._details_cache = details_map`
StoreDetails(t) ==
    /\ threads[t].pc = "store_details"
    /\ details_cache' = Some(threads[t].details)
    /\ threads' = [threads EXCEPT ![t].pc = "return"]
    /\ UNCHANGED <<today, bonds_file, coupons_file, coupons_cache, rating_file,
                   rating_cache, emitent_file, bonds_cache, refreshed, rated_on, last,
                   coupons_valid, emitent_cache, columns_cache, descriptions_cache>>

\* line 27: `return self._bonds_cache`, whatever the attribute holds by now;
\* outcome "null" is the return of None
GetBondsReturn(t) ==
    /\ threads[t].pc = "return"
    /\ last' = [Call("get_bonds", "", FALSE, "return") EXCEPT
                   !.outcome = IF bonds_cache = None THEN "null" ELSE "ok",
                   !.bonds = IF bonds_cache = None THEN <<>> ELSE bonds_cache[1],
                   !.after = refreshed, !.raced = threads[t].raced]
    /\ refreshed' = {}
    /\ threads' = [threads EXCEPT ![t] = Idle]
    /\ UNCHANGED <<today, bonds_file, coupons_file, coupons_cache, rating_file,
                   rating_cache, emitent_file, bonds_cache, details_cache, rated_on,
                   coupons_valid, emitent_cache, columns_cache, descriptions_cache>>

\* a successful get_coupons(secid, True) on the worker thread, lines 216-265:
\* the write, then both invalidations; every call in flight has been raced
WorkerGetCoupons(secid) ==
    /\ GetCouponsRefresh(secid, TRUE)
    /\ threads' = [t \in THREADS |->
                      IF threads[t].pc = "idle" THEN threads[t]
                      ELSE [threads[t] EXCEPT !.raced = TRUE]]
    /\ UNCHANGED <<coupons_valid, emitent_cache, columns_cache, descriptions_cache>>

----------------------------------------------------------------------------
(* Actions: CouponService.get_coupons statement by statement, on the       *)
(* workers of the default executor.  Each GET /bonds/{secid}/coupons hands  *)
(* its get_coupons to asyncio.to_thread (routers/bonds.py:243-247), so two  *)
(* requests run on two workers; CouponService has no lock.                  *)

WORKERS == {"w1", "w2"}

\* lines 178-179: `data = self._read_data()`, the whole file as this call
\* sees it; with force_refresh the call goes on to the download
CouponsRead(t, secid) ==
    /\ threads[t].pc = "idle"
    /\ threads' = [threads EXCEPT ![t] =
                      [pc |-> "download", secid |-> secid, data |-> coupons_file]]
    /\ UNCHANGED <<today, bonds_file, coupons_file, coupons_cache, rating_file,
                   rating_cache, emitent_file, bonds_cache, details_cache, refreshed,
                   rated_on, last, coupons_valid, emitent_cache, columns_cache,
                   descriptions_cache>>

\* lines 218-260 with a download that succeeds: the entry is put into the
\* dict this call read and the dict is written over the file (line 248);
\* then both invalidations
CouponsWrite(t) ==
    /\ threads[t].pc = "download"
    /\ \E fresh_data \in OriginPayloads :
          LET bond_entry == BondEntry(fresh_data, today)
          IN  /\ coupons_file' = WithKey(threads[t].data, threads[t].secid, bond_entry)
              /\ threads' = [threads EXCEPT ![t] =
                                [pc |-> "return", secid |-> @.secid, data |-> bond_entry]]
    /\ coupons_cache' = None
    /\ bonds_cache' = None
    /\ details_cache' = None
    /\ refreshed' = refreshed \cup {threads[t].secid}
    /\ UNCHANGED <<today, bonds_file, rating_file, rating_cache, emitent_file,
                   rated_on, last, coupons_valid, emitent_cache, columns_cache,
                   descriptions_cache>>

\* line 265: `return bond_entry`
CouponsReturn(t) ==
    /\ threads[t].pc = "return"
    /\ last' = [Call("get_coupons", threads[t].secid, TRUE, "refresh") EXCEPT
                   !.entry = threads[t].data, !.net = 1, !.classified = TRUE,
                   !.download = "ok"]
    /\ threads' = [threads EXCEPT ![t] = Idle]
    /\ UNCHANGED <<today, bonds_file, coupons_file, coupons_cache, rating_file,
                   rating_cache, emitent_file, bonds_cache, details_cache, refreshed,
                   rated_on, coupons_valid, emitent_cache, columns_cache,
                   descriptions_cache>>

----------------------------------------------------------------------------
(* Actions: the static source and the metadata *)

\* routers/bonds.py, lines 105-128, around DataLoader.refresh_bonds_dataset
\* (data_loader.py 47-99): the download failed or is not JSON
RefreshBondsDataFailed(download) ==
    /\ download.status # "ok"
    /\ last' = [Call("refresh_bonds_data", "", FALSE, "download") EXCEPT
                   !.outcome = "raise", !.net = 1, !.download = download.status]
    /\ UNCHANGED <<today, bonds_file, coupons_file, coupons_cache, rating_file,
                   rating_cache, emitent_file, bonds_cache, details_cache, refreshed,
                   rated_on, ext>>

\* the payload is written, the caches are emptied and rebuilt (r is what
\* _load_bonds_data computes from the new file); when the rebuild raises,
\* the error is not a RuntimeError and the route ends before line 119
RefreshBondsDataStored(payload, r) ==
    /\ bonds_file' = payload
    /\ coupons_cache' = r.coupons_cache
    /\ bonds_cache' = IF r.ok THEN Some(r.bonds) ELSE None
    /\ details_cache' = IF r.ok THEN Some(r.details) ELSE None
    /\ columns_cache' = IF r.ok THEN clear_metadata_cache(columns_cache) ELSE columns_cache
    /\ descriptions_cache' = IF r.ok THEN clear_metadata_cache(descriptions_cache)
                             ELSE descriptions_cache
    /\ last' = [Call("refresh_bonds_data", "", FALSE, "stored") EXCEPT
                   !.outcome = IF r.ok THEN "ok" ELSE "raise",
                   !.net = 1, !.download = "ok", !.rebuilt = TRUE,
                   !.counts = IF r.ok THEN RowCounts(payload) ELSE @]
    /\ UNCHANGED <<today, coupons_file, rating_file, rating_cache, emitent_file,
                   refreshed, rated_on, coupons_valid, emitent_cache, threads>>

RefreshBondsDataFrom(downloads) ==
    \E download \in downloads :
        \/ RefreshBondsDataFailed(download)
        \/ /\ download.status = "ok"
           /\ RefreshBondsDataStored(download.payload,
                  load_bonds_data(download.payload, coupons_cache, coupons_file,
                                  rating_file, emitent_file, today))

RefreshBondsData == RefreshBondsDataFrom(StaticDownloads)

\* DataLoader.get_column_mapping, lines 35-39
GetColumnMapping ==
    /\ columns_cache' = IF columns_cache = None
                        THEN Some(load_column_mapping(ColumnsFile)) ELSE columns_cache
    /\ last' = [Call("get_column_mapping", "", FALSE, "") EXCEPT
                   !.rebuilt = (columns_cache = None),
                   !.mapping = columns_cache'[1]]
    /\ UNCHANGED <<today, bonds_file, coupons_file, coupons_cache, rating_file,
                   rating_cache, emitent_file, bonds_cache, details_cache, refreshed,
                   rated_on, coupons_valid, emitent_cache, descriptions_cache, threads>>

\* DataLoader.get_descriptions, lines 41-45
GetDescriptions ==
    /\ descriptions_cache' = IF descriptions_cache = None
                             THEN Some(DescribeFile) ELSE descriptions_cache
    /\ last' = [Call("get_descriptions", "", FALSE, "") EXCEPT
                   !.rebuilt = (descriptions_cache = None),
                   !.mapping = descriptions_cache'[1]]
    /\ UNCHANGED <<today, bonds_file, coupons_file, coupons_cache, rating_file,
                   rating_cache, emitent_file, bonds_cache, details_cache, refreshed,
                   rated_on, coupons_valid, emitent_cache, columns_cache, threads>>

----------------------------------------------------------------------------
(* Actions: the batch-refresh routes *)

\* get_bonds as a batch route calls it: the list it returns and the caches
\* afterwards; r is what _load_bonds_data computes if the cache is empty
BondsFor(r) ==
    IF bonds_cache # None
    THEN [ok |-> TRUE, bonds |-> bonds_cache[1], rebuilt |-> FALSE,
          bonds_cache |-> bonds_cache, details_cache |-> details_cache,
          coupons_cache |-> coupons_cache]
    ELSE [ok |-> r.ok, bonds |-> IF r.ok THEN r.bonds ELSE <<>>, rebuilt |-> TRUE,
          bonds_cache |-> IF r.ok THEN Some(r.bonds) ELSE bonds_cache,
          details_cache |-> IF r.ok THEN Some(r.details) ELSE details_cache,
          coupons_cache |-> r.coupons_cache]

\* routers/bonds.py, lines 179-203: the loop of refresh_coupons_data, each
\* pass a get_coupons(secid, True); acc = [file, attempts]
RECURSIVE CouponLoop(_, _, _, _)
CouponLoop(bonds_list, outcomes, acc, day) ==
    IF bonds_list = <<>> THEN acc
    ELSE LET secid == Head(bonds_list).SECID
             o == outcomes[secid]
             next ==
                 IF secid = ""
                 THEN [acc EXCEPT !.attempts = Append(@, Attempt(secid, "none", "skipped"))]
                 ELSE IF o.download = "ok"
                 THEN [file |-> WithKey(acc.file, secid, BondEntry(o.data, day)),
                       attempts |-> Append(acc.attempts, Attempt(secid, "ok", "updated"))]
                 ELSE IF secid \in DOMAIN acc.file
                 THEN [acc EXCEPT !.attempts = Append(@, Attempt(secid, "failed", "updated"))]
                 ELSE [acc EXCEPT !.attempts = Append(@, Attempt(secid, "failed", "error"))]
         IN  CouponLoop(Tail(bonds_list), outcomes, next, day)

\* routers/rating.py, lines 121-150: the loop of refresh_ratings_data.  The
\* call at lines 136-142 hands get_rating four arguments; the method takes
\* three (rating_service.py:401), so each pass ends in TypeError before
\* get_rating runs, and the except clause counts it
RECURSIVE RatingLoop(_, _)
RatingLoop(bonds_list, attempts) ==
    IF bonds_list = <<>> THEN attempts
    ELSE LET bond == Head(bonds_list)
         IN  RatingLoop(Tail(bonds_list),
                        Append(attempts,
                               IF bond.SECID = "" \/ bond.BOARDID = ""
                               THEN Attempt(bond.SECID, "none", "skipped")
                               ELSE Attempt(bond.SECID, "none", "error")))

SecidsOf(bonds_list) == [i \in 1..Len(bonds_list) |-> bonds_list[i].SECID]

\* routers/bonds.py, lines 163-229, with g what get_bonds gave
CouponBatch(g) ==
    /\ IF ~g.ok
       THEN /\ last' = [Call("refresh_coupons_data", "", TRUE, "") EXCEPT
                           !.outcome = "raise", !.rebuilt = g.rebuilt]
            /\ coupons_cache' = g.coupons_cache
            /\ bonds_cache' = g.bonds_cache
            /\ details_cache' = g.details_cache
            /\ UNCHANGED <<coupons_file, refreshed>>
       ELSE \E outcomes \in [SECIDS -> CouponOutcomes] :
               LET end == CouponLoop(g.bonds, outcomes,
                                     [file |-> coupons_file, attempts |-> <<>>], today)
                   Written == {end.attempts[i].secid : i \in
                                  {j \in 1..Len(end.attempts) : end.attempts[j].fetch = "ok"}}
               IN  /\ coupons_file' = end.file
                   /\ coupons_cache' = IF Written # {} THEN None ELSE g.coupons_cache
                   /\ bonds_cache' = IF Written # {} THEN None ELSE g.bonds_cache
                   /\ details_cache' = IF Written # {} THEN None ELSE g.details_cache
                   /\ refreshed' = Written
                   /\ last' = [Call("refresh_coupons_data", "", TRUE, "") EXCEPT
                                  !.rebuilt = g.rebuilt, !.items = SecidsOf(g.bonds),
                                  !.attempts = end.attempts,
                                  !.summary = Summary(Len(g.bonds), end.attempts)]
    /\ UNCHANGED <<today, bonds_file, rating_file, rating_cache, emitent_file,
                   rated_on, ext>>

RefreshCouponsData == CouponBatch(BondsFor(Reload))

\* routers/rating.py, lines 105-176, with g what get_bonds gave
RatingBatch(g, force_update) ==
    /\ last' = IF ~g.ok
               THEN [Call("refresh_ratings_data", "", force_update, "") EXCEPT
                        !.outcome = "raise", !.rebuilt = g.rebuilt]
               ELSE [Call("refresh_ratings_data", "", force_update, "") EXCEPT
                        !.rebuilt = g.rebuilt, !.items = SecidsOf(g.bonds),
                        !.attempts = RatingLoop(g.bonds, <<>>),
                        !.summary = Summary(Len(g.bonds), RatingLoop(g.bonds, <<>>))]
    /\ coupons_cache' = g.coupons_cache
    /\ bonds_cache' = g.bonds_cache
    /\ details_cache' = g.details_cache
    /\ refreshed' = {}
    /\ UNCHANGED <<today, bonds_file, coupons_file, rating_file, rating_cache,
                   emitent_file, rated_on, ext>>

RefreshRatingsData == \E force_update \in BOOLEAN : RatingBatch(BondsFor(Reload), force_update)

----------------------------------------------------------------------------
(* Actions: the environment *)

\* the calendar advances
NextDay(jumps, max_day) ==
    /\ \E j \in jumps : today + j <= max_day /\ today' = today + j
    /\ last' = Call("next_day", "", FALSE, "")
    /\ UNCHANGED <<bonds_file, coupons_file, coupons_cache, rating_file, rating_cache,
                   emitent_file, bonds_cache, details_cache, refreshed, rated_on>>

\* the process restarts: main.py's lifespan builds new loaders, every
\* in-memory cache starts empty, the files stay
Restart ==
    /\ coupons_cache' = None
    /\ rating_cache' = None
    /\ bonds_cache' = None
    /\ details_cache' = None
    /\ refreshed' = {}
    /\ last' = Call("restart", "", FALSE, "")
    /\ UNCHANGED <<today, bonds_file, coupons_file, rating_file, emitent_file, rated_on>>

----------------------------------------------------------------------------
(* Specification *)

\* after construction: the coupon file is valid JSON, nothing is cached,
\* no call is in flight
ExtInit ==
    /\ coupons_valid = TRUE
    /\ emitent_cache = None
    /\ columns_cache = None
    /\ descriptions_cache = None
    /\ threads = [t \in THREADS |-> Idle]

Init ==
    /\ ExtInit
    /\ today = 0
    /\ bonds_file = StaticSource
    /\ coupons_file \in InitCouponFiles
    /\ coupons_cache = None
    /\ rating_file = NoFile
    /\ rating_cache = None
    /\ emitent_file \in InitEmitentFiles
    /\ bonds_cache = None
    /\ details_cache = None
    /\ refreshed = {}
    /\ rated_on = [s \in SECIDS |-> None]
    /\ last = NoCall

Next ==
    \/ \E secid \in SECIDS, force_refresh \in BOOLEAN :
          GetCoupons(secid, force_refresh) /\ UNCHANGED ext
    \/ GetBonds /\ UNCHANGED ext
    \/ GetBondDetails /\ UNCHANGED ext
    \/ ClearBondsCache /\ UNCHANGED ext
    \/ NextDay(CouponJumps, MaxDay) /\ UNCHANGED ext
    \/ Restart /\ UNCHANGED ext

Spec == Init /\ [][Next]_vars

\* the rating cache on its own calendar
BOARDIDS == {"TQCB"}

InitRating ==
    /\ ExtInit
    /\ today = 0
    /\ bonds_file = StaticSource
    /\ coupons_file = <<>>
    /\ coupons_cache = None
    /\ rating_file \in InitRatingFiles
    /\ rating_cache = None
    /\ emitent_file = NoFile
    /\ bonds_cache = None
    /\ details_cache = None
    /\ refreshed = {}
    /\ rated_on = [s \in SECIDS |-> None]
    /\ last = NoCall

NextRating ==
    \/ \E secid \in SECIDS, boardid \in BOARDIDS, force_refresh \in BOOLEAN :
          GetRating(secid, boardid, force_refresh) /\ UNCHANGED ext
    \/ NextDay(RatingJumps, MaxRatingDay) /\ UNCHANGED ext
    \/ Restart /\ UNCHANGED ext

SpecRating == InitRating /\ [][NextRating]_vars

\* the issuer cache on its own
RestartEmitent ==
    /\ emitent_cache' = None
    /\ last' = Call("restart", "", FALSE, "")
    /\ UNCHANGED <<today, bonds_file, coupons_file, coupons_cache, rating_file,
                   rating_cache, emitent_file, bonds_cache, details_cache, refreshed,
                   rated_on, coupons_valid, columns_cache, descriptions_cache, threads>>

InitEmitent ==
    /\ ExtInit
    /\ today = 0
    /\ bonds_file = StaticSource
    /\ coupons_file = <<>>
    /\ coupons_cache = None
    /\ rating_file = NoFile
    /\ rating_cache = None
    /\ emitent_file \in InitEmitentFiles \cup {CorruptFile}
    /\ bonds_cache = None
    /\ details_cache = None
    /\ refreshed = {}
    /\ rated_on = [s \in SECIDS |-> None]
    /\ last = NoCall

NextEmitent ==
    \/ \E secid \in SECIDS : GetOrFetchEmitent(secid, IsinOf[secid])
    \/ \E bonds_details \in BatchDetails : RefreshAllEmitents(bonds_details)
    \/ RestartEmitent

SpecEmitent == InitEmitent /\ [][NextEmitent]_vars

\* the coupon cache over a file that may not be JSON
InitCouponFile ==
    /\ coupons_valid \in BOOLEAN
    /\ emitent_cache = None
    /\ columns_cache = None
    /\ descriptions_cache = None
    /\ threads = [t \in THREADS |-> Idle]
    /\ today = 0
    /\ bonds_file = StaticSource
    /\ coupons_file \in (IF coupons_valid THEN InitCouponFiles ELSE {<<>>})
    /\ coupons_cache = None
    /\ rating_file = NoFile
    /\ rating_cache = None
    /\ emitent_file = NoFile
    /\ bonds_cache = None
    /\ details_cache = None
    /\ refreshed = {}
    /\ rated_on = [s \in SECIDS |-> None]
    /\ last = NoCall

NextCouponFile ==
    \/ \E secid \in SECIDS, force_refresh \in BOOLEAN : GetCouponsRead(secid, force_refresh)
    \/ NextDay(CouponJumps, MaxDay) /\ UNCHANGED ext
    \/ Restart /\ UNCHANGED ext

SpecCouponFile == InitCouponFile /\ [][NextCouponFile]_vars

\* the batch routes over the coupon cache and the aggregator
InitBatch ==
    /\ ExtInit
    /\ today = 0
    /\ bonds_file = StaticSource
    /\ coupons_file \in InitCouponFiles
    /\ coupons_cache = None
    /\ rating_file = NoFile
    /\ rating_cache = None
    /\ emitent_file \in InitEmitentFiles
    /\ bonds_cache = None
    /\ details_cache = None
    /\ refreshed = {}
    /\ rated_on = [s \in SECIDS |-> None]
    /\ last = NoCall

NextBatch ==
    \/ RefreshCouponsData
    \/ RefreshRatingsData
    \/ \E secid \in SECIDS, force_refresh \in BOOLEAN :
          GetCoupons(secid, force_refresh) /\ UNCHANGED ext
    \/ NextDay(CouponJumps, MaxDay) /\ UNCHANGED ext
    \/ Restart /\ UNCHANGED ext

SpecBatch == InitBatch /\ [][NextBatch]_vars

\* a reader on the event loop against coupon refreshes on the worker thread
InitThreads ==
    /\ ExtInit
    /\ today = 0
    /\ bonds_file = StaticSource
    /\ coupons_file \in InitCouponFiles
    /\ coupons_cache = None
    /\ rating_file = NoFile
    /\ rating_cache = None
    /\ emitent_file = NoFile
    /\ bonds_cache = None
    /\ details_cache = None
    /\ refreshed = {}
    /\ rated_on = [s \in SECIDS |-> None]
    /\ last = NoCall

NextThreads ==
    \/ GetBondsBegin("loop")
    \/ LoadRead("loop", Reload)
    \/ StoreBonds("loop")
    \/ StoreDetails("loop")
    \/ GetBondsReturn("loop")
    \/ \E secid \in SECIDS : WorkerGetCoupons(secid)

SpecThreads == InitThreads /\ [][NextThreads]_vars

\* the aggregator over every side cache and the replaceable static source
\* routers/metadata.py, lines 56-71, around DataLoader.clear_metadata_cache
\* (data_loader.py 339-342)
ClearMetadataCache ==
    /\ columns_cache' = clear_metadata_cache(columns_cache)
    /\ descriptions_cache' = clear_metadata_cache(descriptions_cache)
    /\ last' = Call("clear_metadata_cache", "", FALSE, "")
    /\ UNCHANGED <<today, bonds_file, coupons_file, coupons_cache, rating_file,
                   rating_cache, emitent_file, bonds_cache, details_cache, refreshed,
                   rated_on, coupons_valid, emitent_cache, threads>>

InitAgg ==
    /\ ExtInit
    /\ today = 0
    /\ bonds_file = StaticSource
    /\ coupons_file = <<>>
    /\ coupons_cache = None
    /\ rating_file = NoFile
    /\ rating_cache = None
    /\ emitent_file = NoFile
    /\ bonds_cache = None
    /\ details_cache = None
    /\ refreshed = {}
    /\ rated_on = [s \in SECIDS |-> None]
    /\ last = NoCall

NextAgg ==
    \/ GetBonds /\ UNCHANGED ext
    \/ GetBondDetails /\ UNCHANGED ext
    \/ RefreshBondsData
    \/ GetColumnMapping
    \/ GetDescriptions
    \/ \E boardid \in BOARDIDS : GetRating("A", boardid, TRUE) /\ UNCHANGED ext
    \/ GetOrFetchEmitent("B", IsinOf["B"])

SpecAgg == InitAgg /\ [][NextAgg]_vars

\* static sources with rows the list rejects (no SHORTNAME), a row with an
\* empty security code and a repeated security code
CoverSources ==
    { StaticSource,
      [StaticSource EXCEPT
          !.securities = <<[SECID |-> "A", BOARDID |-> "TQCB", SHORTNAME |-> "a"],
                           [SECID |-> "B", BOARDID |-> "TQCB"],
                           [SECID |-> "", BOARDID |-> "TQCB", SHORTNAME |-> "n"]>>],
      [StaticSource EXCEPT
          !.securities = <<[SECID |-> "A", BOARDID |-> "TQCB"],
                           [SECID |-> "A", BOARDID |-> "TQOB", SHORTNAME |-> "a"],
                           [SECID |-> "B", BOARDID |-> "TQCB", SHORTNAME |-> "b"]>>] }

\* the rebuild over such sources, between coupon refreshes
InitCover ==
    /\ ExtInit
    /\ today = 0
    /\ bonds_file \in CoverSources
    /\ coupons_file = <<>>
    /\ coupons_cache = None
    /\ rating_file = NoFile
    /\ rating_cache = None
    /\ emitent_file = NoFile
    /\ bonds_cache = None
    /\ details_cache = None
    /\ refreshed = {}
    /\ rated_on = [s \in SECIDS |-> None]
    /\ last = NoCall

NextCover ==
    \/ GetBonds /\ UNCHANGED ext
    \/ GetBondDetails /\ UNCHANGED ext
    \/ \E secid \in SECIDS : GetCoupons(secid, TRUE) /\ UNCHANGED ext

SpecCover == InitCover /\ [][NextCover]_vars

\* two forced coupon refreshes in flight at once
InitWorkers ==
    /\ today = 0
    /\ bonds_file = StaticSource
    /\ coupons_file \in InitCouponFiles
    /\ coupons_cache = None
    /\ rating_file = NoFile
    /\ rating_cache = None
    /\ emitent_file = NoFile
    /\ bonds_cache = None
    /\ details_cache = None
    /\ refreshed = {}
    /\ rated_on = [s \in SECIDS |-> None]
    /\ last = NoCall
    /\ coupons_valid = TRUE
    /\ emitent_cache = None
    /\ columns_cache = None
    /\ descriptions_cache = None
    /\ threads = [t \in WORKERS |-> Idle]

NextWorkers ==
    \/ \E t \in WORKERS, secid \in SECIDS : CouponsRead(t, secid)
    \/ \E t \in WORKERS : CouponsWrite(t)
    \/ \E t \in WORKERS : CouponsReturn(t)

SpecWorkers == InitWorkers /\ [][NextWorkers]_vars

\* the rebuild over side files of every kind: absent, not JSON, or holding
\* entries
InitOptional ==
    /\ ExtInit
    /\ today = 0
    /\ bonds_file = StaticSource
    /\ coupons_file = <<>>
    /\ coupons_cache = None
    /\ rating_file \in InitRatingFiles
    /\ rating_cache = None
    /\ emitent_file \in InitEmitentFiles \cup {CorruptFile}
    /\ bonds_cache = None
    /\ details_cache = None
    /\ refreshed = {}
    /\ rated_on = [s \in SECIDS |-> None]
    /\ last = NoCall

NextOptional ==
    \/ GetBonds /\ UNCHANGED ext
    \/ GetBondDetails /\ UNCHANGED ext
    \/ ClearBondsCache /\ UNCHANGED ext

SpecOptional == InitOptional /\ [][NextOptional]_vars

\* the replacement of the static source, with downloads of every kind
InitReplace == InitAgg

NextReplace ==
    \/ GetBonds /\ UNCHANGED ext
    \/ GetBondDetails /\ UNCHANGED ext
    \/ RefreshBondsDataFrom(ReplaceDownloads)
    \/ GetColumnMapping
    \/ GetDescriptions
    \/ ClearBondsCache /\ UNCHANGED ext

SpecReplace == InitReplace /\ [][NextReplace]_vars

\* the aggregator with its two invalidation hooks, next to the operations
\* that change what the files hold
InitInvalidate == InitAgg

NextInvalidate ==
    \/ GetBonds /\ UNCHANGED ext
    \/ GetBondDetails /\ UNCHANGED ext
    \/ GetColumnMapping
    \/ GetDescriptions
    \/ GetRating("A", "TQCB", TRUE) /\ UNCHANGED ext
    \/ GetCoupons("A", TRUE) /\ UNCHANGED ext
    \/ ClearBondsCache /\ UNCHANGED ext
    \/ ClearMetadataCache

SpecInvalidate == InitInvalidate /\ [][NextInvalidate]_vars

\* the joins of a rebuild over static sources with several boards
InitJoin ==
    /\ ExtInit
    /\ today = 0
    /\ bonds_file \in JoinSources
    /\ coupons_file = <<>>
    /\ coupons_cache = None
    /\ rating_file = NoFile
    /\ rating_cache = None
    /\ emitent_file = NoFile
    /\ bonds_cache = None
    /\ details_cache = None
    /\ refreshed = {}
    /\ rated_on = [s \in SECIDS |-> None]
    /\ last = NoCall

NextJoin ==
    \/ GetBonds /\ UNCHANGED ext
    \/ GetBondDetails /\ UNCHANGED ext
    \/ ClearBondsCache /\ UNCHANGED ext

SpecJoin == InitJoin /\ [][NextJoin]_vars

\* routers/bonds.py list_bonds, line 84: the filter applied to a list of
\* records; it reads and writes no state of the services
FilterBonds(bonds, filters) ==
    /\ last' = [op |-> "filter_bonds", bonds |-> bonds, filters |-> filters,
                outcome |-> filter_bonds(bonds, filters).outcome,
                result |-> filter_bonds(bonds, filters).bonds]
    /\ UNCHANGED <<today, bonds_file, coupons_file, coupons_cache, rating_file,
                   rating_cache, emitent_file, bonds_cache, details_cache,
                   refreshed, rated_on>>

\* the filter engine alone
\* the rating labels of the rating model, character by character, as
\* is_rating_in_range inspects them
Chars ==
    [l \in {"AA(RU)", "A(RU)", "ruAA", ""} |->
        CASE l = "AA(RU)" -> <<"A", "A", "(", "R", "U", ")">>
          [] l = "A(RU)" -> <<"A", "(", "R", "U", ")">>
          [] l = "ruAA" -> <<"r", "u", "A", "A">>
          [] OTHER -> <<>>]

\* rating spans a list request asks for
ListFilters ==
    { [NoFilters EXCEPT !.rating_min = rmin, !.rating_max = rmax] :
         rmin \in {None, Some(<<"A", "A", "A">>)},
         rmax \in {None, Some(<<"D">>), Some(<<"A">>)} }

\* routers/bonds.py, lines 18-103, list_bonds with g what get_bonds gave:
\* the list is read, then filtered
ListBonds(g, filters) ==
    /\ last' = [op |-> "list_bonds", rebuilt |-> g.rebuilt, filters |-> filters,
                bonds |-> g.bonds,
                outcome |-> IF g.ok THEN "ok" ELSE "raise",
                result |-> IF g.ok
                           THEN filter_bonds([i \in 1..Len(g.bonds) |->
                                                 [g.bonds[i] EXCEPT
                                                     !.RATING_LEVEL =
                                                         IF @ = None THEN None
                                                         ELSE Some(Chars[@[1]])]],
                                             filters).bonds
                           ELSE <<>>]
    /\ coupons_cache' = g.coupons_cache
    /\ bonds_cache' = g.bonds_cache
    /\ details_cache' = g.details_cache
    /\ refreshed' = {}
    /\ UNCHANGED <<today, bonds_file, coupons_file, rating_file, rating_cache,
                   emitent_file, rated_on, ext>>

\* rating files of every kind; one rates B only, one holds for A an
\* observation without agency name before one with
ListingFiles ==
    InitRatingFiles \cup
    { [state |-> "ok",
       data |-> [B |-> RatingEntry("new", IsoFormat(0), <<Rating("AKRA", "AA(RU)")>>)]],
      [state |-> "ok",
       data |-> [A |-> RatingEntry("new", IsoFormat(0),
                                   <<Rating("", "AA(RU)"), Rating("AKRA", "A(RU)")>>),
                 B |-> RatingEntry("new", IsoFormat(0), <<Rating("AKRA", "A(RU)")>>)]] }

\* list requests between rating lookups
InitListing ==
    /\ ExtInit
    /\ today = 0
    /\ bonds_file = StaticSource
    /\ coupons_file = <<>>
    /\ coupons_cache = None
    /\ rating_file \in ListingFiles
    /\ rating_cache = None
    /\ emitent_file = NoFile
    /\ bonds_cache = None
    /\ details_cache = None
    /\ refreshed = {}
    /\ rated_on = [s \in SECIDS |-> None]
    /\ last = NoCall

NextListing ==
    \/ \E filters \in ListFilters : ListBonds(BondsFor(Reload), filters)
    \/ GetRating("A", "TQCB", TRUE) /\ UNCHANGED ext
    \/ ClearBondsCache /\ UNCHANGED ext

SpecListing == InitListing /\ [][NextListing]_vars

InitFilter ==
    /\ ExtInit
    /\ today = 0
    /\ bonds_file = StaticSource
    /\ coupons_file = <<>>
    /\ coupons_cache = None
    /\ rating_file = NoFile
    /\ rating_cache = None
    /\ emitent_file = NoFile
    /\ bonds_cache = None
    /\ details_cache = None
    /\ refreshed = {}
    /\ rated_on = [s \in SECIDS |-> None]
    /\ last = NoCall

NextFilter ==
    \E bonds \in FilterLists, filters \in FilterSpecs : FilterBonds(bonds, filters) /\ UNCHANGED ext

SpecFilter == InitFilter /\ [][NextFilter]_vars

\* the staleness test of both services: the test on its own, and the calls
\* that consult it while the origin is unreachable
MaxStaleDay == 31

StaleJumps == {14, 15, 16}

MissingDate == [kind |-> "missing", day |-> 0]

\* last_updated values handed to _is_data_stale: dates, "", a string that
\* is no date, None
StaleDates == {IsoFormat(0), IsoFormat(1), IsoFormat(16), EmptyDate, BadDate, MissingDate}

\* coupon_service.py:51-58 and rating_service.py:91-112, called on their own
IsDataStale(service, last_updated) ==
    /\ last' = [op |-> "is_data_stale", service |-> service,
                last_updated |-> last_updated,
                stale |-> IF service = "coupon" THEN CouponIsStale(last_updated, today)
                          ELSE RatingIsStale(last_updated, today)]
    /\ UNCHANGED <<today, bonds_file, coupons_file, coupons_cache, rating_file,
                   rating_cache, emitent_file, bonds_cache, details_cache,
                   refreshed, rated_on>>

\* the files the two services start with, taken pairwise
StaleFiles ==
    { <<c, r>> \in InitCouponFiles \X InitRatingFiles :
         \/ c = <<>> /\ r.state # "ok"
         \/ c # <<>> /\ r.state = "ok" /\ ("A" \in DOMAIN c <=> "B" \notin DOMAIN r.data) }

InitStale ==
    /\ ExtInit
    /\ today = 0
    /\ bonds_file = StaticSource
    /\ \E files \in StaleFiles : coupons_file = files[1] /\ rating_file = files[2]
    /\ coupons_cache = None
    /\ rating_cache = None
    /\ emitent_file = NoFile
    /\ bonds_cache = None
    /\ details_cache = None
    /\ refreshed = {}
    /\ rated_on = [s \in SECIDS |-> None]
    /\ last = NoCall

NextStale ==
    \/ \E service \in {"coupon", "rating"}, last_updated \in StaleDates :
          IsDataStale(service, last_updated) /\ UNCHANGED ext
    \/ \E secid \in SECIDS :
          GetCoupons(secid, FALSE) /\ last'.download # "ok" /\ UNCHANGED ext
    \/ \E secid \in SECIDS, boardid \in BOARDIDS :
          /\ GetRating(secid, boardid, TRUE)
          /\ last'.html.status \in {"none", "failed"}
          /\ UNCHANGED ext
    \/ NextDay(StaleJumps, MaxStaleDay) /\ UNCHANGED ext

SpecStale == InitStale /\ [][NextStale]_vars

\* the coupon-type classifier on its own: coupons with the given amounts,
\* the first of them preceded by a coupon without amount
DetectCouponType(payments) ==
    /\ last' = [op |-> "detect_coupon_type", payments |-> payments,
                label |-> detect_coupon_type(<<[coupondate |-> IsoFormat(0)]>> \o
                                             [i \in 1..Len(payments) |->
                                                 [value |-> payments[i]]])]
    /\ UNCHANGED <<today, bonds_file, coupons_file, coupons_cache, rating_file,
                   rating_cache, emitent_file, bonds_cache, details_cache,
                   refreshed, rated_on>>

InitClassify ==
    /\ ExtInit
    /\ today = 0
    /\ bonds_file = StaticSource
    /\ coupons_file = <<>>
    /\ coupons_cache = None
    /\ rating_file = NoFile
    /\ rating_cache = None
    /\ emitent_file = NoFile
    /\ bonds_cache = None
    /\ details_cache = None
    /\ refreshed = {}
    /\ rated_on = [s \in SECIDS |-> None]
    /\ last = NoCall

NextClassify ==
    \E payments \in PaymentSequences : DetectCouponType(payments) /\ UNCHANGED ext

SpecClassify == InitClassify /\ [][NextClassify]_vars

----------------------------------------------------------------------------
(* Properties of the coupon cache and the aggregator (under Spec) *)

\* the fields _clean_coupon_fields is to strip from a coupon
StrippedFields == {"isin", "name", "issuevalue", "primary_boardid", "coupon_type", "secid"}

\* r carries the payload of the stored entry e: the same refresh date, offers,
\* amortization dates and coupon dates and amounts
SamePayload(r, e) ==
    /\ r.last_updated = e.last_updated
    /\ r.offers = e.offers
    /\ Len(r.amortizations) = Len(e.amortizations)
    /\ \A i \in 1..Len(e.amortizations) :
          r.amortizations[i].amortdate = e.amortizations[i].amortdate
    /\ Len(r.coupons) = Len(e.coupons)
    /\ \A i \in 1..Len(e.coupons) :
          /\ r.coupons[i].coupondate = e.coupons[i].coupondate
          /\ r.coupons[i].value = e.coupons[i].value

\* the label an entry stores: that of its first amortization, if it is one of
\* the two regimes
StoredLabel(file, id) ==
    IF id \in DOMAIN file /\ Len(file[id].amortizations) > 0
       /\ "coupon_type" \in DOMAIN file[id].amortizations[1]
       /\ file[id].amortizations[1].coupon_type \in {"FIX", "FLOAT"}
    THEN Some(file[id].amortizations[1].coupon_type)
    ELSE None

\* C1: after a forced get_coupons for an id fetched and persisted, the next
\* get_bonds returns a list holding the record of that id with the coupon
\* amount of the newly persisted entry (no restart in between).
C1_ListReflectsForcedRefresh ==
    last.op = "get_bonds" =>
        \A id \in last.after :
            /\ last.outcome = "ok"
            /\ \E i \in 1..Len(last.bonds) :
                  /\ last.bonds[i].SECID = id
                  /\ last.bonds[i].COUPONVALUE # None
                  /\ \E k \in 1..Len(coupons_file[id].coupons) :
                        last.bonds[i].COUPONVALUE = Some(coupons_file[id].coupons[k].value)

\* C2: get_coupons(id, force_refresh = FALSE) on an entry whose refresh date
\* is present and at most 14 days old returns the cached payload, sends no
\* request, and leaves the coupon file, the coupon-loader cache and the
\* aggregator's snapshot as they were.
C2_FreshHitLeavesStorageAlone ==
    [][\A id \in SECIDS :
          ( /\ last'.op = "get_coupons" /\ last'.secid = id /\ ~last'.force
            /\ id \in DOMAIN coupons_file
            /\ coupons_file[id].last_updated.kind = "iso"
            /\ today - coupons_file[id].last_updated.day <= 14 )
          => /\ last'.outcome = "ok"
             /\ last'.net = 0
             /\ SamePayload(last'.entry, coupons_file[id])
             /\ coupons_file' = coupons_file
             /\ coupons_cache' = coupons_cache
             /\ bonds_cache' = bonds_cache
             /\ details_cache' = details_cache]_vars

\* a hit at the age of exactly 14 days on an old-layout entry: the label is
\* back-filled in the value returned and not in the file
C2_Witness ==
    /\ last.op = "get_coupons" /\ ~last.force /\ last.net = 0
    /\ last.secid \in DOMAIN coupons_file
    /\ coupons_file[last.secid].last_updated = IsoFormat(today - 14)
    /\ "coupon_type" \notin DOMAIN coupons_file[last.secid].amortizations[1]
    /\ "coupon_type" \in DOMAIN last.entry.amortizations[1]

\* C3: when get_coupons needs a fetch and the download fails, a cached entry
\* for the id (fresh or stale) is returned without raising and without a
\* write; with no cached entry the failure reaches the caller.
C3_FailedFetchFallsBack ==
    [][\A id \in SECIDS :
          (last'.op = "get_coupons" /\ last'.secid = id /\ last'.download = "error")
          => /\ coupons_file' = coupons_file
             /\ IF id \in DOMAIN coupons_file
                THEN /\ last'.outcome = "ok"
                     /\ SamePayload(last'.entry, coupons_file[id])
                ELSE last'.outcome = "raise"]_vars

\* the download failed on a forced call and the entry of the same day came back
C3_Witness ==
    /\ last.op = "get_coupons" /\ last.download = "error" /\ last.force
    /\ last.outcome = "ok"
    /\ last.secid \in DOMAIN coupons_file
    /\ coupons_file[last.secid].last_updated = IsoFormat(today)
    /\ Len(last.entry.coupons) > 0

\* C4: the entry a successful refresh writes is dated today, has every
\* amortization tagged with the classifier's label for the fetched coupons,
\* has no coupon with a stripped field, and the coupon-loader cache and the
\* aggregator's snapshot are empty when the call returns.
C4_RefreshWritesTaggedEntry ==
    [][\A id \in SECIDS :
          (last'.op = "get_coupons" /\ last'.secid = id /\ last'.download = "ok")
          => /\ id \in DOMAIN coupons_file'
             /\ LET e == coupons_file'[id]
                IN  /\ e.last_updated = [kind |-> "iso", day |-> today]
                    /\ \A i \in 1..Len(e.amortizations) :
                          /\ "coupon_type" \in DOMAIN e.amortizations[i]
                          /\ e.amortizations[i].coupon_type \in {"FIX", "FLOAT"}
                          /\ e.amortizations[i].coupon_type = detect_coupon_type(e.coupons)
                    /\ \A i \in 1..Len(e.coupons) : DOMAIN e.coupons[i] \cap StrippedFields = {}
                    /\ last'.entry = e
             /\ coupons_cache' = None
             /\ bonds_cache' = None
             /\ details_cache' = None]_vars

\* a refresh on a later day wrote an entry with two amortizations over loaded caches
C4_Witness ==
    /\ last.op = "get_coupons" /\ last.download = "ok" /\ today > 0
    /\ Len(coupons_file[last.secid].amortizations) = 2
    /\ coupons_file[last.secid].amortizations[2].coupon_type = "FLOAT"
    /\ coupons_file[last.secid].last_updated = IsoFormat(today)
    /\ bonds_cache = None

\* C5: a cache hit returns the label the entry stores and does not run the
\* classifier; the label _load_bonds_data reads for a row is the stored one,
\* not one computed from the entry's coupons.
C5_HitsReuseStoredLabel ==
    [][\A id \in SECIDS :
          (last'.op = "get_coupons" /\ last'.secid = id /\ last'.download = "none")
          => /\ ~last'.classified
             /\ id \in DOMAIN coupons_file
             /\ \A i \in 1..Len(coupons_file[id].amortizations) :
                   "coupon_type" \in DOMAIN coupons_file[id].amortizations[i]
                   => /\ "coupon_type" \in DOMAIN last'.entry.amortizations[i]
                      /\ last'.entry.amortizations[i].coupon_type =
                            coupons_file[id].amortizations[i].coupon_type]_vars

C5_AggregatorReadsStoredLabel ==
    (last.op = "get_bonds" /\ last.rebuilt)
    => \A id \in DOMAIN last.labels : last.labels[id] = StoredLabel(coupons_file, id)

C5_LabelComputedOncePerRefresh ==
    C5_HitsReuseStoredLabel /\ [](C5_AggregatorReadsStoredLabel)

\* the list was rebuilt over an entry a refresh wrote as FLOAT and over one
\* without amortizations, whose coupons alone would classify as FIX
C5_Witness ==
    /\ last.op = "get_bonds" /\ last.rebuilt
    /\ \E id \in DOMAIN last.labels : last.labels[id] = Some("FLOAT")
    /\ \E id \in DOMAIN last.labels :
          /\ id \in DOMAIN coupons_file
          /\ last.labels[id] = None
          /\ detect_coupon_type(coupons_file[id].coupons) = "FIX"

----------------------------------------------------------------------------
(* Properties of the rating cache (under SpecRating) *)

\* the rating data a call works on: the loaded dict, or what the file holds
RatingData == load_rating_data(rating_cache, rating_file).data

RatingDataAfter == load_rating_data(rating_cache', rating_file').data

\* the entry carries a refresh date at most 30 days old
FreshRating(e) ==
    /\ e.fmt = "new"
    /\ e.last_updated.kind = "iso"
    /\ today - e.last_updated.day <= 30

\* the one-element placeholder: empty strings and zero ids
ExpectedPlaceholder ==
    <<[agency_id |-> 0, agency_name_short_ru |-> "", rating_level_id |-> 0,
       rating_date |-> "", rating_level_name_short_ru |-> ""]>>

\* the page links to the issuer's documents with a numeric id
HasIssuerId(links) ==
    \E i \in 1..Len(links) :
        links[i].target \in {"emidocs.aspx", "EMIDOCS.ASPX"} /\ links[i].id # None

\* the placeholder is what the file and the loaded data hold for id after the step
PlaceholderPersisted(id) ==
    /\ rating_file'.state = "ok"
    /\ id \in DOMAIN rating_file'.data
    /\ rating_file'.data[id].ratings = ExpectedPlaceholder
    /\ rating_file'.data[id].is_list
    /\ RatingDataAfter = rating_file'.data

\* C6: get_rating on an id whose entry has a refresh date at most 30 days old
\* returns the cached list as it is, sends no request and changes neither
\* the rating data nor the file, whatever force_refresh is.
C6_FreshRatingIsReturnedAsIs ==
    [][\A id \in SECIDS :
          ( /\ last'.op = "get_rating" /\ last'.secid = id
            /\ id \in DOMAIN RatingData
            /\ FreshRating(RatingData[id])
            /\ RatingData[id].is_list )
          => /\ last'.outcome = "ok"
             /\ last'.ratings = RatingData[id].ratings
             /\ last'.net = 0 /\ last'.api = 0
             /\ RatingDataAfter = RatingData
             /\ rating_file' = rating_file]_vars

\* a forced call at the age of exactly 30 days answered from the cache
C6_Witness ==
    /\ last.op = "get_rating" /\ last.force /\ last.net = 0
    /\ last.secid \in DOMAIN RatingData
    /\ RatingData[last.secid].last_updated = IsoFormat(today - 30)
    /\ Len(last.ratings) > 0
    /\ last.ratings = RatingData[last.secid].ratings

C8_NoIssuerIdStoresPlaceholder ==
    [][\A id \in SECIDS :
          /\ ( /\ last'.op = "get_rating" /\ last'.secid = id /\ ~last'.force
               /\ id \notin DOMAIN RatingData )
             => /\ last'.ratings = ExpectedPlaceholder
                /\ last'.net = 0 /\ last'.api = 0
          /\ ( /\ last'.op = "get_rating" /\ last'.secid = id /\ last'.force
               /\ id \notin DOMAIN RatingData
               /\ last'.html.status = "ok" /\ ~HasIssuerId(last'.html.links) )
             => /\ last'.outcome = "ok"
                /\ last'.ratings = ExpectedPlaceholder
                /\ PlaceholderPersisted(id)
                /\ last'.api = 0
          /\ ( /\ last.op = "get_rating" /\ last.secid = id /\ last.force
               /\ ~last.known
               /\ last.html.status = "ok" /\ ~HasIssuerId(last.html.links)
               /\ last'.op = "get_rating" /\ last'.secid = id /\ ~last'.force )
             => /\ id \in DOMAIN RatingData
                /\ last'.ratings = RatingData[id].ratings
                /\ last'.ratings = ExpectedPlaceholder
                /\ last'.net = 0 /\ last'.api = 0]_vars

\* a forced call for an unknown id got a page with links but no issuer id
C8_Witness ==
    /\ last.op = "get_rating" /\ last.force /\ ~last.known
    /\ last.html.status = "ok" /\ Len(last.html.links) > 0
    /\ ~HasIssuerId(last.html.links)
    /\ last.api = 0
    /\ last.ratings = ExpectedPlaceholder
    /\ rating_file.data[last.secid].ratings = ExpectedPlaceholder

C10_RefreshIsDatedToday ==
    [][\A id \in SECIDS :
          /\ ( /\ last'.op = "get_rating" /\ last'.secid = id
               /\ last'.html.status # "none" )
             => /\ rating_file'.state = "ok"
                /\ id \in DOMAIN rating_file'.data
                /\ rating_file'.data[id].last_updated = [kind |-> "iso", day |-> today]
                /\ rating_file'.data[id].ratings = last'.ratings
                /\ RatingDataAfter = rating_file'.data
          /\ ( /\ last'.op = "get_rating" /\ last'.secid = id /\ last'.force
               /\ rated_on[id] # None
               /\ today - rated_on[id][1] <= 30 )
             => /\ last'.net = 0 /\ last'.api = 0
                /\ last'.html.status = "none"]_vars

\* a second forced call exactly 30 days after a refresh that found no rating
C10_Witness ==
    /\ last.op = "get_rating" /\ last.force /\ last.net = 0
    /\ rated_on[last.secid] = Some(today - 30)
    /\ last.ratings = ExpectedPlaceholder

----------------------------------------------------------------------------
(* Failure policy of the per-instrument caches *)

\* the entry stored for id holds a rating some fetch once found
HoldsGoodRating(data, id) ==
    /\ id \in DOMAIN data
    /\ data[id].fmt \in {"new", "cci", "array"}
    /\ data[id].is_list
    /\ data[id].ratings # <<>>
    /\ data[id].ratings # ExpectedPlaceholder

\* C11: when a rating refresh cannot reach the origin (the page request or
\* the API request fails) and the cache holds a rating for the id, the call
\* returns that rating and the cache still holds it afterwards.
C11_RatingFailureKeepsLastGood ==
    [][\A id \in SECIDS :
          ( /\ last'.op = "get_rating" /\ last'.secid = id /\ last'.path = "fetch"
            /\ \/ last'.html.status = "failed"
               \/ last'.api_status = "failed"
            /\ HoldsGoodRating(RatingData, id) )
          => /\ last'.ratings = RatingData[id].ratings
             /\ HoldsGoodRating(RatingDataAfter, id)
             /\ RatingDataAfter[id].ratings = RatingData[id].ratings]_vars

\* the issuer data a call works on: the loaded dict, or what the file holds
EmitentData == load_emitent_data(emitent_cache, emitent_file).data

\* C12: a lookup miss is cached.  When get_or_fetch_emitent for an id ends
\* without a matching record, the same lookup repeated right after it is
\* answered without a request to the origin.
C12_IssuerMissIsCached ==
    [][\A id \in SECIDS :
          ( /\ last.op = "get_or_fetch_emitent" /\ last.secid = id
            /\ last.path = "miss" /\ last.answer.status = "ok"
            /\ last'.op = "get_or_fetch_emitent" /\ last'.secid = id )
          => last'.net = 0]_vars

\* C13: a cache file that is not valid JSON does not make the first read
\* fail.  For the coupon cache: get_coupons over such a file replaces it by
\* an empty, valid file and goes on to download, as it does for an empty cache.
C13_CorruptCouponFileIsReinitialised ==
    [][\A id \in SECIDS :
          ( /\ ~coupons_valid
            /\ last'.op = "get_coupons" /\ last'.secid = id )
          => /\ coupons_valid'
             /\ last'.download # "none"]_vars

----------------------------------------------------------------------------
(* Batch refresh *)

\* C14: in a batch refresh of coupons or ratings that returns its summary,
\* each instrument of the list is attempted once, in list order; every
\* instrument that is not skipped has its origin fetch made; and an
\* instrument whose origin fetch fails is counted as an error, not as updated.
C14_BatchCountsFailuresAsErrors ==
    [][( /\ last'.op \in {"refresh_coupons_data", "refresh_ratings_data"}
         /\ last'.outcome = "ok" )
       => /\ Len(last'.attempts) = Len(last'.items)
          /\ \A i \in 1..Len(last'.attempts) :
                /\ last'.attempts[i].secid = last'.items[i]
                /\ last'.attempts[i].counted # "skipped" => last'.attempts[i].fetch # "none"
                /\ last'.attempts[i].fetch = "failed" => last'.attempts[i].counted = "error"
          /\ last'.summary.updated + last'.summary.errors + last'.summary.skipped
                = last'.summary.total]_vars

----------------------------------------------------------------------------
(* The snapshot under concurrent refreshes (under SpecThreads) *)

\* C15: whatever the worker thread does between the statements of a
\* get_bonds, the call returns a list, never None.
C15_ReaderNeverGetsNull ==
    [][(threads["loop"].pc = "return" /\ threads'["loop"].pc = "idle")
       => /\ last'.op = "get_bonds"
          /\ last'.outcome # "null"]_vars

\* what _load_bonds_data builds from the files as they are now
FreshSnapshot ==
    load_bonds_data(bonds_file, None, coupons_file, rating_file, emitent_file, today)

\* C16: a get_bonds during which no coupon write completed (it started
\* after the last write and its invalidation) returns the list a rebuild
\* from the coupon file as it now is would give.
C16_ReadAfterWriteIsFresh ==
    [][( /\ threads["loop"].pc = "return" /\ threads'["loop"].pc = "idle"
         /\ ~last'.raced
         /\ last'.outcome = "ok" )
       => /\ FreshSnapshot.ok
          /\ last'.bonds = FreshSnapshot.bonds]_vars

----------------------------------------------------------------------------
(* The snapshot and the side caches (under SpecAgg) *)

\* C17: the snapshot follows every write.  A get_bonds or get_bond_details
\* that returns gives the list / the detail map a rebuild from the static
\* source, the rating file and the issuer file as they now are would give.
C17_ReadFollowsEveryWrite ==
    [][/\ (last'.op = "get_bonds" /\ last'.outcome = "ok")
          => FreshSnapshot.ok /\ last'.bonds = FreshSnapshot.bonds
       /\ (last'.op = "get_bond_details" /\ last'.outcome = "ok")
          => FreshSnapshot.ok /\ last'.details = FreshSnapshot.details]_vars

\* what _load_bonds_data builds from the files as they are after the step
FreshSnapshotAfter ==
    load_bonds_data(bonds_file', None, coupons_file', rating_file', emitent_file', today')

\* C18: a replacement of the static source that succeeds leaves the static
\* file holding a downloaded payload, the list and the detail map rebuilt
\* from it, returns the row counts of its three sections, and leaves the
\* column-name and description caches empty; the metadata read that follows
\* loads from the files again.
C18_ReplaceRebuildsAndClearsMetadata ==
    [][/\ (last'.op = "refresh_bonds_data" /\ last'.outcome = "ok")
          => /\ bonds_file' \in StaticPayloads
             /\ FreshSnapshotAfter.ok
             /\ bonds_cache' = Some(FreshSnapshotAfter.bonds)
             /\ details_cache' = Some(FreshSnapshotAfter.details)
             /\ last'.counts = [securities |-> Len(bonds_file'.securities),
                                marketdata |-> Len(bonds_file'.marketdata),
                                marketdata_yields |-> Len(bonds_file'.marketdata_yields)]
             /\ columns_cache' = None
             /\ descriptions_cache' = None
       /\ ( /\ last.op = "refresh_bonds_data" /\ last.outcome = "ok"
            /\ last'.op \in {"get_column_mapping", "get_descriptions"} )
          => last'.rebuilt]_vars

\* the source was replaced by the three-row payload: the snapshot holds its
\* rows and both metadata caches are empty
C18_Witness ==
    /\ last.op = "refresh_bonds_data" /\ last.outcome = "ok"
    /\ bonds_file # StaticSource
    /\ last.counts = [securities |-> 3, marketdata |-> 1, marketdata_yields |-> 0]
    /\ Len(bonds_cache[1]) = 3
    /\ columns_cache = None
    /\ descriptions_cache = None

----------------------------------------------------------------------------
(* The joins of _load_bonds_data *)

\* the security codes of the rows of the static source
SourceSecids == {bonds_file.securities[i].SECID : i \in 1..Len(bonds_file.securities)}

\* C19: the list a rebuild produced holds exactly one record for each
\* security code of the static source, and a record's coupon amount and
\* rating are None unless the coupon file / the rating file holds the code.
C19_OneRecordPerSecurity ==
    (last.op = "get_bonds" /\ last.rebuilt /\ last.outcome = "ok")
    => /\ \A s \in SourceSecids :
             Cardinality({i \in 1..Len(last.bonds) : last.bonds[i].SECID = s}) = 1
       /\ \A i \in 1..Len(last.bonds) :
             /\ last.bonds[i].SECID \in SourceSecids
             /\ last.bonds[i].COUPONVALUE # None => last.bonds[i].SECID \in DOMAIN coupons_file
             /\ last.bonds[i].RATING_AGENCY # None
                   => last.bonds[i].SECID \in DOMAIN load_ratings_map(rating_file)

\* the list and detail map as the securities loop leaves them
JoinStart ==
    SecuritiesLoop(bonds_file.securities, [bonds |-> <<>>, details |-> <<>>],
                   LoadCouponsData(None, coupons_file)[1], today)

\* ... and as they are when market-data row k is about to be joined
BeforeRow(k) == MarketLoop(SubSeq(bonds_file.marketdata, 1, k - 1), JoinStart)

\* the record the claim designates for a market-data row: the first with
\* the row's security and board code, else the first with its security code
Designated(bonds, row) ==
    LET Exact == {i \in 1..Len(bonds) :
                     /\ "BOARDID" \in DOMAIN row
                     /\ bonds[i].SECID = row.SECID /\ bonds[i].BOARDID = row.BOARDID}
        BySecurity == {i \in 1..Len(bonds) : bonds[i].SECID = row.SECID}
    IN  IF Exact # {} THEN CHOOSE i \in Exact : \A j \in Exact : i <= j
        ELSE CHOOSE i \in BySecurity : \A j \in BySecurity : i <= j

\* C20: for every market-data row whose security code has a detail record,
\* the join changes the designated record and no other; that record gets
\* the row's trading status (when the row carries one) and the row's
\* DURATION as a number (None when it is null or not a number), and
\* nothing else of it changes.  The list a rebuild returns carries the
\* statuses and durations of the rows joined in source order.
C20_MarketRowUpdatesDesignatedRecord ==
    /\ \A k \in 1..Len(bonds_file.marketdata) :
          LET row == bonds_file.marketdata[k]
              before == BeforeRow(k).bonds
              after == ApplyMarketRow(BeforeRow(k), row).bonds
              d == Designated(before, row)
          IN  row.SECID \in DOMAIN BeforeRow(k).details
              => /\ Len(after) = Len(before)
                 /\ \A i \in 1..Len(before) : i # d => after[i] = before[i]
                 /\ after[d] = [before[d] EXCEPT !.TRADINGSTATUS = after[d].TRADINGSTATUS,
                                                 !.DURATION = after[d].DURATION]
                 /\ ("TRADINGSTATUS" \in DOMAIN row /\ row.TRADINGSTATUS # "")
                       => after[d].TRADINGSTATUS = <<row.TRADINGSTATUS>>
                 /\ ("TRADINGSTATUS" \notin DOMAIN row \/ row.TRADINGSTATUS = "")
                       => after[d].TRADINGSTATUS = before[d].TRADINGSTATUS
                 /\ "DURATION" \in DOMAIN row
                       => after[d].DURATION =
                             (IF row.DURATION \in {<<100>>, <<1>>} THEN row.DURATION
                              ELSE IF row.DURATION = <<"str", " 7 ">> THEN <<7>>
                              ELSE <<>>)
                 /\ "DURATION" \notin DOMAIN row => after[d].DURATION = before[d].DURATION
    /\ (last.op = "get_bonds" /\ last.rebuilt /\ last.outcome = "ok")
          => LET joined == MarketLoop(bonds_file.marketdata, JoinStart).bonds
             IN  /\ Len(last.bonds) = Len(joined)
                 /\ \A i \in 1..Len(joined) :
                       /\ last.bonds[i].SECID = joined[i].SECID
                       /\ last.bonds[i].BOARDID = joined[i].BOARDID
                       /\ last.bonds[i].TRADINGSTATUS = joined[i].TRADINGSTATUS
                       /\ last.bonds[i].DURATION = joined[i].DURATION

\* a rebuild over A/TQOB, B/TQCB, A/TQCB with a row for A on a board no
\* record has, then a row for A/TQCB: the first went to the first record
\* of A, the second to the record on TQCB, B was left alone
C20_Witness ==
    /\ last.op = "get_bonds" /\ last.rebuilt /\ last.outcome = "ok"
    /\ Len(bonds_file.marketdata) = 2
    /\ bonds_file.marketdata[1].SECID = "A" /\ "BOARDID" \in DOMAIN bonds_file.marketdata[1]
    /\ bonds_file.marketdata[1].BOARDID = "TQIR"
    /\ bonds_file.marketdata[2].SECID = "A" /\ "BOARDID" \in DOMAIN bonds_file.marketdata[2]
    /\ bonds_file.marketdata[2].BOARDID = "TQCB"
    /\ Len(last.bonds) = 3
    /\ last.bonds[1].SECID = "A" /\ last.bonds[1].BOARDID = "TQOB"
    /\ last.bonds[1].TRADINGSTATUS = <<"N">> /\ last.bonds[1].DURATION = <<7>>
    /\ last.bonds[2].SECID = "B" /\ last.bonds[2].TRADINGSTATUS = <<>>
    /\ last.bonds[3].BOARDID = "TQCB"
    /\ last.bonds[3].TRADINGSTATUS = <<"T">> /\ last.bonds[3].DURATION = <<100>>

\* the non-null DURATIONWAPRICE values of the yield-curve rows of a
\* security, in source order
YieldValues(secid) ==
    LET ys == bonds_file.marketdata_yields
        Rows == {k \in 1..Len(ys) : ys[k].SECID = secid /\ "DURATIONWAPRICE" \in DOMAIN ys[k]}
    IN  [first |-> IF Rows = {} THEN <<>>
                   ELSE <<ys[CHOOSE k \in Rows : \A j \in Rows : k <= j].DURATIONWAPRICE>>,
         all |-> {ys[k].DURATIONWAPRICE : k \in Rows}]

\* the DURATION values, as numbers, of the market-data rows of a security
MarketDurations(secid) ==
    LET md == bonds_file.marketdata
    IN  {ParseDuration(md[k].DURATION) :
            k \in {j \in 1..Len(md) : md[j].SECID = secid /\ "DURATION" \in DOMAIN md[j]}}

----------------------------------------------------------------------------
(* Properties of the filter engine (under SpecFilter) *)

\* a record satisfies the numeric, date and membership criteria supplied:
\* closed ranges over the values present, membership in the listed values
SatisfiesPlain(b, f) ==
    /\ f.coupon_min # None
          => (b.COUPONPERCENT # None /\ b.COUPONPERCENT[1] >= f.coupon_min[1])
    /\ f.coupon_max # None
          => (b.COUPONPERCENT # None /\ b.COUPONPERCENT[1] <= f.coupon_max[1])
    /\ f.yield_min # None
          => (b.YIELDATPREVWAPRICE # None /\ b.YIELDATPREVWAPRICE[1] >= f.yield_min[1])
    /\ f.yield_max # None
          => (b.YIELDATPREVWAPRICE # None /\ b.YIELDATPREVWAPRICE[1] <= f.yield_max[1])
    /\ f.coupon_yield_min # None => CouponYieldAtLeast(b, f.coupon_yield_min[1])
    /\ f.coupon_yield_max # None => CouponYieldAtMost(b, f.coupon_yield_max[1])
    /\ f.matdate_from # None => (b.MATDATE # None /\ b.MATDATE[1] >= f.matdate_from[1])
    /\ f.matdate_to # None => (b.MATDATE # None /\ b.MATDATE[1] <= f.matdate_to[1])
    /\ f.listlevel # <<>>
          => (b.LISTLEVEL # None /\ b.LISTLEVEL[1] \in Elements(f.listlevel))
    /\ f.faceunit # <<>>
          => (b.FACEUNIT # None /\ b.FACEUNIT[1] \in Elements(f.faceunit))

\* the sub-sequence of a list made of the records at the indices in keep
RECURSIVE Kept(_, _, _)
Kept(bonds, keep, i) ==
    IF i > Len(bonds) THEN <<>>
    ELSE (IF i \in keep THEN <<bonds[i]>> ELSE <<>>) \o Kept(bonds, keep, i + 1)

\* C22: a filter call without a rating criterion returns a list; when it
\* has no bond-type or coupon-regime criterion either, the list is, in
\* input order, exactly the records that satisfy every supplied criterion
\* (all records when none is supplied).
C22_FilterIsConjunctionOfCriteria ==
    (last.op = "filter_bonds"
     /\ last.filters.rating_min = None /\ last.filters.rating_max = None)
    => /\ last.outcome = "ok"
       /\ (last.filters.bondtype = <<>> /\ last.filters.coupon_type = <<>>)
          => last.result =
                Kept(last.bonds,
                     {i \in 1..Len(last.bonds) : SatisfiesPlain(last.bonds[i], last.filters)},
                     1)

\* C29: with coupon_min and/or coupon_max as the only criteria a record is
\* retained iff its coupon rate is present and lies in the closed interval,
\* endpoints and a rate of 0 under a minimum of 0 included; likewise for
\* the yield range.
C29_NumericRangesAreClosed ==
    /\ ( /\ last.op = "filter_bonds"
         /\ last.filters # NoFilters
         /\ last.filters = [NoFilters EXCEPT !.coupon_min = last.filters.coupon_min,
                                             !.coupon_max = last.filters.coupon_max] )
       => /\ last.outcome = "ok"
          /\ \A i \in 1..Len(last.bonds) :
                (\E j \in 1..Len(last.result) : last.result[j] = last.bonds[i])
                <=> LET r == last.bonds[i].COUPONPERCENT
                    IN  /\ r # None
                        /\ last.filters.coupon_min # None => last.filters.coupon_min[1] <= r[1]
                        /\ last.filters.coupon_max # None => r[1] <= last.filters.coupon_max[1]
    /\ ( /\ last.op = "filter_bonds"
         /\ last.filters # NoFilters
         /\ last.filters = [NoFilters EXCEPT !.yield_min = last.filters.yield_min,
                                             !.yield_max = last.filters.yield_max] )
       => /\ last.outcome = "ok"
          /\ \A i \in 1..Len(last.bonds) :
                (\E j \in 1..Len(last.result) : last.result[j] = last.bonds[i])
                <=> LET r == last.bonds[i].YIELDATPREVWAPRICE
                    IN  /\ r # None
                        /\ last.filters.yield_min # None => last.filters.yield_min[1] <= r[1]
                        /\ last.filters.yield_max # None => r[1] <= last.filters.yield_max[1]

\* a scale label occurs in a rating string as a whole token: at some
\* position, not preceded by an upper-case letter and not followed by an
\* upper-case letter or a notch sign
OccursAsToken(label, str) ==
    \E p \in 1..(Len(str) - Len(label) + 1) :
        /\ \A k \in 1..Len(label) : str[p + k - 1] = label[k]
        /\ p > 1 => str[p - 1] \notin UpperLetters
        /\ p + Len(label) <= Len(str)
              => str[p + Len(label)] \notin UpperLetters \cup {"+", "-"}

\* the ordinal span a call asks for, as indices into the scale
Span(filters) ==
    (IF filters.rating_min = None THEN 1 ELSE RatingIndex(filters.rating_min[1]))
    .. (IF filters.rating_max = None THEN Len(RATINGS) ELSE RatingIndex(filters.rating_max[1]))

\* a call whose only criterion is a rating range with labels of the scale
RatingOnly(call) ==
    /\ call.op = "filter_bonds"
    /\ call.filters # NoFilters
    /\ call.filters = [NoFilters EXCEPT !.rating_min = call.filters.rating_min,
                                        !.rating_max = call.filters.rating_max]
    /\ call.filters.rating_min # None => RatingIndex(call.filters.rating_min[1]) # 0
    /\ call.filters.rating_max # None => RatingIndex(call.filters.rating_max[1]) # 0

\* C23: a call whose only criterion is a rating range keeps a record iff
\* the record has a rating string in which some label of the requested
\* span occurs as a whole token.
C23_RatingRangeMatchesWholeTokens ==
    RatingOnly(last)
    => /\ last.outcome = "ok"
       /\ \A i \in 1..Len(last.bonds) :
             (\E j \in 1..Len(last.result) : last.result[j] = last.bonds[i])
             <=> /\ last.bonds[i].RATING_LEVEL # None
                 /\ \E k \in Span(last.filters) :
                       OccursAsToken(RATINGS[k], last.bonds[i].RATING_LEVEL[1])

\* C30: under a rating range, each of the records rated "ruAA+" (lowercase
\* agency prefix) and "AA+(RU)" (parenthesised suffix) is kept when the
\* span contains AA+, the second label of the scale, and dropped when it
\* does not.
C30_AgencyAffixesAreTolerated ==
    RatingOnly(last)
    => \A i \in 1..Len(last.bonds) :
          last.bonds[i].RATING_LEVEL \in {<<<<"r", "u", "A", "A", "+">>>>,
                                          <<<<"A", "A", "+", "(", "R", "U", ")">>>>}
          => ((\E j \in 1..Len(last.result) : last.result[j] = last.bonds[i])
              <=> 2 \in Span(last.filters))

----------------------------------------------------------------------------
(* Properties of the staleness policy (under SpecStale) *)

\* C24: _is_data_stale answers true iff the date is missing, is not a
\* date, or lies more than the TTL in whole days before today (14 for the
\* coupon cache, 30 for the rating cache; an age of exactly the TTL is
\* fresh).  A cached coupon entry whose date is missing or not a date is
\* not answered from the cache, and a forced read of a rating entry whose
\* date is missing or not a date goes to the origin: both are handled as
\* stale entries are.
C24_StalenessPolicy ==
    [][/\ (last'.op = "is_data_stale" /\ last' # last)
          => (last'.stale <=>
                 \/ last'.last_updated.kind # "iso"
                 \/ today' - last'.last_updated.day
                       > (IF last'.service = "coupon" THEN 14 ELSE 30))
       /\ ( /\ last'.op = "get_coupons" /\ last' # last
            /\ last'.secid \in DOMAIN coupons_file
            /\ \/ coupons_file[last'.secid].last_updated.kind # "iso"
               \/ today - coupons_file[last'.secid].last_updated.day > 14 )
          => (last'.path # "hit" /\ last'.net = 1)
       /\ ( /\ last'.op = "get_coupons" /\ last' # last
            /\ last'.secid \in DOMAIN coupons_file
            /\ coupons_file[last'.secid].last_updated.kind = "iso"
            /\ today - coupons_file[last'.secid].last_updated.day <= 14 )
          => (last'.path = "hit" /\ last'.net = 0)
       /\ ( /\ last'.op = "get_rating" /\ last' # last
            /\ last'.secid \in DOMAIN load_rating_data(rating_cache, rating_file).data )
          => LET entry == load_rating_data(rating_cache, rating_file).data[last'.secid]
                 dated == /\ entry.fmt = "new"
                          /\ entry.last_updated.kind = "iso"
                          /\ today - entry.last_updated.day <= 30
             IN  (last'.net = 0) <=> dated]_vars

\* on day 30 the rating test was asked about a date of day 0 and answered
\* fresh
C24_Witness ==
    /\ last.op = "is_data_stale"
    /\ last.service = "rating"
    /\ last.last_updated = IsoFormat(0)
    /\ today = 30
    /\ ~last.stale

----------------------------------------------------------------------------
(* Properties of the coupon-type classifier (under SpecClassify) *)

\* the specified algorithm on amounts in thousandths that are whole
\* hundredths: the number of payments equal to the most frequent amount,
\* and the number of adjacent pairs more than 0.10 apart
DominantCount(payments) ==
    LET Occurrences(v) == Cardinality({i \in 1..Len(payments) : payments[i] = v})
    IN  CHOOSE c \in {Occurrences(payments[i]) : i \in 1..Len(payments)} :
            \A i \in 1..Len(payments) : Occurrences(payments[i]) <= c

TransitionCount(payments) ==
    Cardinality({i \in 1..(Len(payments) - 1) : Abs(payments[i + 1] - payments[i]) > 100})

\* C25: the classifier returns fixed for fewer than 4 payments; otherwise
\* fixed iff the most frequent amount makes up at least 80% of the payments
\* and at most 2 adjacent pairs differ by more than 0.10, floating in every
\* other case.
C25_ClassifierFollowsAlgorithm ==
    last.op = "detect_coupon_type"
    => (last.label = "FIX"
        <=> \/ Len(last.payments) < 4
            \/ /\ 10 * DominantCount(last.payments) >= 8 * Len(last.payments)
               /\ TransitionCount(last.payments) <= 2)

\* C26: a constant sequence of 4 or more payments is fixed; a sequence of 4
\* or more payments that alternates between two amounts more than 0.10
\* apart is floating.
C26_ConstantFixedAlternatingFloating ==
    (last.op = "detect_coupon_type" /\ Len(last.payments) >= 4)
    => /\ (\A i \in 1..Len(last.payments) : last.payments[i] = last.payments[1])
          => last.label = "FIX"
       /\ ( /\ Abs(last.payments[2] - last.payments[1]) > 100
            /\ \A i \in 3..Len(last.payments) : last.payments[i] = last.payments[i - 2] )
          => last.label = "FLOAT"

\* the classifier was given 1.00, 1.25, 1.00, 1.25, 1.00 and answered
\* floating
C26_Witness ==
    /\ last.op = "detect_coupon_type"
    /\ last.payments = <<1000, 1250, 1000, 1250, 1000>>
    /\ last.label = "FLOAT"

\* C27: the issuer cache is keyed by the id the caller passed.  A
\* get_or_fetch_emitent(id, isin) that fetched and returned a record leaves
\* that record stored under id, and a get_or_fetch_emitent for an id the
\* cache holds answers the stored record without a request to the origin.
C27_IssuerCacheKeyedByCallerId ==
    [][\A id \in SECIDS :
          (last'.op = "get_or_fetch_emitent" /\ last'.secid = id)
          => /\ last'.path = "found"
                => /\ id \in DOMAIN EmitentData'
                   /\ Some(EmitentData'[id]) = last'.emitent
             /\ (id \in DOMAIN EmitentData /\ last' # last)
                => /\ last'.net = 0
                   /\ last'.emitent = Some(EmitentData[id])]_vars

\* what the files hold
Durable == <<bonds_file, coupons_file, rating_file, emitent_file>>

\* the caches of the other services
ServiceCaches == <<coupons_cache, rating_cache, emitent_cache>>

\* C28: clear_bonds_cache empties the list and the details and nothing
\* else, clear_metadata_cache empties the column mapping and the
\* descriptions and nothing else, neither sends a request or writes a file,
\* and the read that follows rebuilds from the files without a request.
C28_InvalidationIsNarrowAndLocal ==
    [][/\ last'.op = "clear_bonds_cache"
          => /\ bonds_cache' = None /\ details_cache' = None
             /\ UNCHANGED <<columns_cache, descriptions_cache, Durable, ServiceCaches>>
             /\ last'.net = 0
       /\ last'.op = "clear_metadata_cache"
          => /\ columns_cache' = None /\ descriptions_cache' = None
             /\ UNCHANGED <<bonds_cache, details_cache, Durable, ServiceCaches>>
             /\ last'.net = 0
       /\ (last.op = "clear_bonds_cache" /\ last'.op = "get_bonds")
          => /\ last'.rebuilt /\ last'.net = 0
             /\ UNCHANGED Durable
             /\ LET r == load_bonds_data(bonds_file, None, coupons_file, rating_file,
                                         emitent_file, today)
                IN  IF r.ok THEN last'.outcome = "ok" /\ last'.bonds = r.bonds
                            ELSE last'.outcome = "raise"
       /\ (last.op = "clear_bonds_cache" /\ last'.op = "get_bond_details")
          => /\ last'.rebuilt /\ last'.net = 0
             /\ UNCHANGED Durable
             /\ LET r == load_bonds_data(bonds_file, None, coupons_file, rating_file,
                                         emitent_file, today)
                IN  IF r.ok THEN last'.outcome = "ok" /\ last'.details = r.details
                            ELSE last'.outcome = "raise"
       /\ (last.op = "clear_metadata_cache" /\ last'.op = "get_column_mapping")
          => /\ last'.rebuilt /\ last'.net = 0
             /\ last'.mapping = load_column_mapping(ColumnsFile)
             /\ UNCHANGED Durable
       /\ (last.op = "clear_metadata_cache" /\ last'.op = "get_descriptions")
          => /\ last'.rebuilt /\ last'.net = 0
             /\ last'.mapping = DescribeFile
             /\ UNCHANGED Durable]_vars

\* the list was emptied while all four caches were loaded and the rating
\* file had been written: the metadata caches are still loaded
C28_Witness ==
    /\ last.op = "clear_bonds_cache"
    /\ bonds_cache = None /\ details_cache = None
    /\ columns_cache # None /\ descriptions_cache # None
    /\ rating_file # NoFile

----------------------------------------------------------------------------
(* The batch refresh of ratings (under SpecBatch) *)

\* C31: in a batch refresh of ratings that returns its summary, each
\* instrument of the list with a security code and a board code is counted
\* as updated, and with force_update its rating is asked from the origin.
C31_RatingBatchCountsLookupsAsUpdated ==
    [][( /\ last'.op = "refresh_ratings_data"
         /\ last'.outcome = "ok" )
       => \A i \in 1..Len(last'.attempts) :
             (bonds_cache'[1][i].SECID # "" /\ bonds_cache'[1][i].BOARDID # "")
             => /\ last'.attempts[i].counted = "updated"
                /\ last'.force => last'.attempts[i].fetch # "none"]_vars

----------------------------------------------------------------------------
(* The replacement of the static source (under SpecReplace) *)

\* C32: a replacement of the static source whose download fails, is not
\* JSON, or is JSON without the three sections ends in a failure, leaves
\* the static file as it was and leaves the list and the detail map as
\* they were.
C32_FailedReplaceKeepsLastGood ==
    [][( /\ last'.op = "refresh_bonds_data"
         /\ last' # last
         /\ \/ last'.download \in {"failed", "invalid_json"}
            \/ last'.download = "ok" /\ bonds_file' = NoSections )
       => /\ last'.outcome = "raise"
          /\ bonds_file' = bonds_file
          /\ bonds_cache' = bonds_cache
          /\ details_cache' = details_cache]_vars

----------------------------------------------------------------------------
(* The optional joins (under SpecOptional) *)

\* C33: when the rating file, the issuer file or both are absent or not
\* JSON, rebuilding get_bonds succeeds with one record per static row; the
\* rating fields of a record are None when the rating file is absent and
\* are those of the file's entry when it holds one with an agency, and the
\* bond type of a record is that of the issuer file when it holds one.
C33_SideFilesAreOptional ==
    ( /\ last.op = "get_bonds" /\ last.rebuilt
      /\ (rating_file.state # "ok" \/ emitent_file.state # "ok") )
    => /\ last.outcome = "ok"
       /\ Len(last.bonds) = Len(bonds_file.securities)
       /\ \A i \in 1..Len(last.bonds) :
             LET b == last.bonds[i]
                 ratings_map == load_ratings_map(rating_file)
                 bondtype_map == load_bondtype_map(emitent_file)
             IN  /\ rating_file.state # "ok"
                    => b.RATING_AGENCY = None /\ b.RATING_LEVEL = None
                 /\ b.SECID \in DOMAIN ratings_map
                    => /\ b.RATING_AGENCY = ratings_map[b.SECID].agency
                       /\ b.RATING_LEVEL = ratings_map[b.SECID].level
                 /\ b.SECID \in DOMAIN bondtype_map
                    => /\ "BONDTYPE" \in DOMAIN b
                       /\ b.BONDTYPE = Some(bondtype_map[b.SECID])

----------------------------------------------------------------------------
(* The failed coupon download (under Spec) *)

\* C34: a get_coupons whose download fails, whether it answers the stored
\* entry or raises, leaves the coupon file, the coupon loader's cache, the
\* list and the detail map as they were, and the entry it answers carries
\* the refresh date the file holds.
C34_FailedFetchChangesNothing ==
    [][\A id \in SECIDS :
          (last'.op = "get_coupons" /\ last'.secid = id /\ last'.download = "error")
          => /\ UNCHANGED <<coupons_file, coupons_cache, bonds_cache, details_cache>>
             /\ last'.outcome = "ok"
                => last'.entry.last_updated = coupons_file'[id].last_updated]_vars

\* a forced refresh of a stored id failed while the list, the detail map
\* and the coupon loader's cache were loaded: all three are still loaded
C34_Witness ==
    /\ last.op = "get_coupons" /\ last.download = "error" /\ last.path = "fallback"
    /\ bonds_cache # None /\ details_cache # None /\ coupons_cache # None
    /\ today > 0
    /\ coupons_file[last.secid].last_updated = IsoFormat(0)

----------------------------------------------------------------------------
(* Concurrent coupon refreshes (under SpecWorkers) *)

\* C35: when two forced get_coupons for different ids have both written
\* and neither has returned yet, the coupon file holds the entry each of
\* them wrote.
C35_ConcurrentRefreshesKeepBothWrites ==
    \A t1 \in WORKERS, t2 \in WORKERS :
        ( /\ threads[t1].pc = "return" /\ threads[t2].pc = "return"
          /\ threads[t1].secid # threads[t2].secid )
        => /\ threads[t1].secid \in DOMAIN coupons_file
           /\ coupons_file[threads[t1].secid] = threads[t1].data

----------------------------------------------------------------------------
(* The list and the detail map (under SpecCover) *)

\* the static rows the rebuild made a list record of, given the coupon file
Accepted(row) == BuildListItem(row, coupons_file, today).ok

\* C36: whenever the list and the detail map are loaded, every key of the
\* detail map is the security code of a list record; every list record with
\* a non-empty security code has a detail record with the three sections;
\* the list records are those of the accepted static rows, in order, and no
\* detail record holds a rejected row.
C36_ListAndDetailsCoverSameIds ==
    (bonds_cache # None /\ details_cache # None)
    => LET bonds == bonds_cache[1]
           details == details_cache[1]
           kept == SelectSeq(bonds_file.securities, Accepted)
       IN  /\ \A s \in DOMAIN details : \E i \in 1..Len(bonds) : bonds[i].SECID = s
           /\ \A i \in 1..Len(bonds) :
                 bonds[i].SECID # ""
                 => /\ bonds[i].SECID \in DOMAIN details
                    /\ DOMAIN details[bonds[i].SECID]
                          = {"securities", "marketdata", "marketdata_yields"}
           /\ Len(bonds) = Len(kept)
           /\ \A i \in 1..Len(bonds) :
                 bonds[i].SECID = kept[i].SECID /\ bonds[i].BOARDID = kept[i].BOARDID
           /\ \A s \in DOMAIN details : Accepted(details[s].securities)

\* a snapshot is loaded from a source with a rejected row and a row without
\* security code: two list records, one detail record
C36_Witness ==
    /\ bonds_cache # None /\ details_cache # None
    /\ Len(bonds_file.securities) = 3
    /\ Len(bonds_cache[1]) = 2
    /\ bonds_cache[1][2].SECID = ""
    /\ DOMAIN details_cache[1] = {"A"}

----------------------------------------------------------------------------
(* Placeholder ratings in the list (under SpecListing) *)

\* the rating file's entry of id is the placeholder, or its first
\* observation has an empty agency name
PlaceholderRated(id) ==
    /\ rating_file.state = "ok"
    /\ id \in DOMAIN rating_file.data
    /\ LET rs == EntryRatings(rating_file.data[id])
       IN  /\ Len(rs) > 0
           /\ "agency_name_short_ru" \in DOMAIN rs[1]
           /\ rs[1].agency_name_short_ru = ""

\* C37: in a list request that rebuilt the list, every record of an id
\* whose rating entry is the placeholder has rating agency and rating level
\* None, and when the request carries a rating bound no record of that id
\* is in its result.
C37_PlaceholderNeverSurfaces ==
    (last.op = "list_bonds" /\ last.rebuilt /\ last.outcome = "ok")
    => \A id \in SECIDS :
          PlaceholderRated(id)
          => /\ \A i \in 1..Len(last.bonds) :
                   last.bonds[i].SECID = id
                   => /\ last.bonds[i].RATING_AGENCY = None
                      /\ last.bonds[i].RATING_LEVEL = None
             /\ (last.filters.rating_min # None \/ last.filters.rating_max # None)
                => \A i \in 1..Len(last.result) : last.result[i].SECID # id

\* the lookup of A failed and stored the placeholder; the list request
\* that followed, with the span AAA..D, rebuilt the list and answered B only
C37_Witness ==
    /\ last.op = "list_bonds" /\ last.rebuilt /\ last.outcome = "ok"
    /\ PlaceholderRated("A")
    /\ EntryRatings(rating_file.data["A"]) = create_empty_rating
    /\ last.filters.rating_max = Some(<<"D">>)
    /\ Len(last.bonds) = 2
    /\ Len(last.result) = 1
    /\ last.result[1].SECID = "B"

----------------------------------------------------------------------------
(* The coupon regime of an entry without amortizations (under SpecCover) *)

\* C38: a get_coupons that downloaded an empty amortization list leaves an
\* entry in which nothing carries a coupon_type; and a get_bonds that
\* rebuilds the list while the coupon file holds such an entry for an id
\* reads no coupon type for it and puts none on its records.
C38_RegimeOnlyOnAmortizations ==
    /\ ( /\ last.op = "get_coupons" /\ last.download = "ok"
         /\ last.entry.amortizations = <<>> )
       => /\ coupons_file[last.secid] = last.entry
          /\ \A i \in 1..Len(last.entry.coupons) :
                "coupon_type" \notin DOMAIN last.entry.coupons[i]
          /\ "coupon_type" \notin DOMAIN last.entry
    /\ (last.op = "get_bonds" /\ last.rebuilt /\ last.outcome = "ok")
       => \A id \in DOMAIN coupons_file :
             coupons_file[id].amortizations = <<>>
             => /\ id \in DOMAIN last.labels => last.labels[id] = None
                /\ \A i \in 1..Len(last.bonds) :
                      last.bonds[i].SECID = id
                      => \/ "COUPON_TYPE" \notin DOMAIN last.bonds[i]
                         \/ last.bonds[i].COUPON_TYPE = None
                /\ \A k \in 1..Len(bonds_file.securities) :
                      ( /\ NewListItem(bonds_file.securities[k]).ok
                        /\ bonds_file.securities[k].SECID = id )
                      => \E i \in 1..Len(last.bonds) : last.bonds[i].SECID = id

\* A was refreshed with a payload without amortizations, and the list was
\* rebuilt after it: A is in the list and no coupon type was read for it
C38_Witness ==
    /\ last.op = "get_bonds" /\ last.rebuilt /\ last.outcome = "ok"
    /\ "A" \in last.after
    /\ "A" \in DOMAIN coupons_file
    /\ coupons_file["A"].amortizations = <<>>
    /\ detect_coupon_type(coupons_file["A"].coupons) = "FIX"
    /\ \E i \in 1..Len(last.bonds) : last.bonds[i].SECID = "A"
    /\ last.labels["A"] = None

----------------------------------------------------------------------------
(* The direction of the rating span (under SpecFilter) *)

====
